---- MODULE Spec2Model ----
(***************************************************************************)
(* A model of the diffusion core of audioldm_train (ddpm.py) and of the    *)
(* separator's optimisation loop (pkboo.py).                               *)
(*                                                                         *)
(* The program is single-threaded; its parts do not share state, so each   *)
(* part is a state machine of its own over its own variables, with its own *)
(* specification:                                                          *)
(*   SpecEma      DDPM.ema_scope around generate_sample's batches          *)
(*   SpecSample   construction and the ancestral sampling loops            *)
(*   SpecCfg      LatentDiffusion.get_input and its CFG dropout            *)
(*   SpecWrapper  DiffusionWrapper.__init__                                *)
(*   SpecSchedule DDPM.register_schedule                                   *)
(*   SpecPkboo    run_pkboo's optimisation loop                            *)
(* In the specification of one part the variables of the others rest at    *)
(* their ...Off values.                                                    *)
(***************************************************************************)
EXTENDS Integers, Sequences, FiniteSets, TLC

VARIABLES
    \* ---- DDPM.ema_scope ----
    use_ema,            \* self.use_ema
    model_params,       \* self.model.parameters(): the live denoiser weights
    shadow_params,      \* self.model_ema's shadow weights (NoParams without EMA)
    collected_params,   \* LitEma.collected_params, what store() kept
    ema_pc,             \* "outside" | "body" | "exited"
    ema_entry_params,   \* history: the live weights just before the scope was entered
    ema_exit_kind,      \* history: "none" | "normal" | "exception"
    ema_batches         \* batches generate_sample has sampled inside the scope

emaVars == <<use_ema, model_params, shadow_params, collected_params, ema_pc,
             ema_entry_params, ema_exit_kind, ema_batches>>

VARIABLES
    \* ---- construction, p_losses and the ancestral sampling loops ----
    dm_class,           \* "DDPM" | "LatentDiffusion": the class of the instance
    parameterization,   \* the constructor's parameterization argument
    num_timesteps,      \* self.num_timesteps, the schedule's length
    self_log_every_t,   \* self.log_every_t
    sm_pc,              \* "new" | "rejected" | "ready" | "loop" | "returned" | "raised"
    sm_error,           \* the exception that ended the constructor, p_losses or a loop
    loss_target,        \* the target of the last p_losses call ("none" before it)
    loop_kind,          \* the loop running: "DDPM.p_sample_loop" | "p_sample_loop" |
                        \* "progressive_denoising" ("none" before the first call)
    arg_timesteps,      \* argument timesteps (NoneArg when not given)
    arg_start_T,        \* argument start_T (NoneArg when not given)
    arg_log_every_t,    \* argument log_every_t (0 stands for None as well: `not 0`)
    arg_mask,           \* a mask (with x0) was given
    arg_callback,       \* callback was given
    arg_img_callback,   \* img_callback was given
    timesteps,          \* the loop's local `timesteps`
    loop_iter,          \* the indices the loop's iterator has yet to yield
    img,                \* the loop's local `img`
    intermediates,      \* the loop's local `intermediates`
    p_calls,            \* history: the p_sample calls of the loop, [t, x]
    step_out,           \* history: `img` at the end of each completed iteration
    callback_log,       \* history: the arguments of the callback calls
    img_callback_log    \* history: the arguments of the img_callback calls

sampleVars == <<dm_class, parameterization, num_timesteps, self_log_every_t, sm_pc,
                sm_error, loss_target, loop_kind, arg_timesteps, arg_start_T,
                arg_log_every_t, arg_mask, arg_callback, arg_img_callback,
                timesteps, loop_iter, img, intermediates, p_calls, step_out,
                callback_log, img_callback_log>>

VARIABLES
    \* ---- LatentDiffusion.get_input: the conditioning bundle and CFG dropout ----
    cond_keys,          \* the keys of self.cond_stage_model_metadata, in their order
    enc_out,            \* for each encoder, the keys of the dict it returns, or
                        \* TensorOut when it returns a tensor
    conditional_dry_run_finished,   \* self.conditional_dry_run_finished
    gi_pc,              \* "idle" | "returned" | "raised": how the last call ended
    gi_error,           \* the exception of a call that raised
    gi_prob,            \* the last call's unconditional_prob_cfg, in RandSteps-ths
    gi_rand,            \* the last call's torch.rand(1) draw, in RandSteps-ths
    gi_dry_before,      \* conditional_dry_run_finished when the last call began
    unconditional_cfg,  \* the last call's local unconditional_cfg
    enc_calls,          \* history: the last call's encoder calls, [key, mode]
    cond_dict           \* the last call's cond_dict: for each key, what made it

cfgVars == <<cond_keys, enc_out, conditional_dry_run_finished, gi_pc, gi_error,
             gi_prob, gi_rand, gi_dry_before, unconditional_cfg, enc_calls,
             cond_dict>>

VARIABLES
    \* ---- DiffusionWrapper.__init__ ----
    wr_conditioning_key,    \* the conditioning_key argument, a list of keys
    wr_pc,                  \* "new" | "constructed" | "raised"
    wr_error,               \* the exception that ended the constructor
    wr_error_key            \* the key the constructor was at when it raised

wrapperVars == <<wr_conditioning_key, wr_pc, wr_error, wr_error_key>>

VARIABLES
    \* ---- DDPM.register_schedule ----
    sch_betas,              \* the beta sequence, each beta a rational <<n, d>>
    sch_parameterization,   \* self.parameterization
    sch_v_posterior,        \* self.v_posterior, a rational
    sch_pc,                 \* "called" | "registered" | "raised"
    sch_error,              \* the exception that ended register_schedule
    sch_num_timesteps,      \* self.num_timesteps, NoneArg until assigned
    sch_buffers,            \* the names given to register_buffer, in order
    sch_lvlb_isnan          \* torch.isnan(lvlb_weights), once they are computed

scheduleVars == <<sch_betas, sch_parameterization, sch_v_posterior, sch_pc,
                  sch_error, sch_num_timesteps, sch_buffers, sch_lvlb_isnan>>

VARIABLES
    \* ---- run_pkboo: the optimisation loop and what it saves ----
    NUM_ITER,               \* kwargs['NUM_ITER']
    BATCH_SIZE,             \* kwargs['BATCH_SIZE']
    pk_pc,                  \* the statement run_pkboo is at
    iter_idx,               \* the loop variable, NoneArg while unbound
    composite_batch,        \* "unbound" | "None" | "batch"
    noise_mse_loss,         \* the local of the loop body
    alpha_reg_loss,         \* the local of the loop body
    losses1,                \* np.zeros(NUM_ITER), then the noise losses
    losses2,                \* np.zeros(NUM_ITER), then the alpha losses
    trigger,
    whenstartdiverge,       \* NoneArg while unbound
    pk_previews,            \* the iterations save_intermediate_results saved
    pk_interrupt_at,        \* the statement a KeyboardInterrupt arrived at
    pk_pending,             \* the exception that is propagating
    pk_saved_mel,           \* seped_mel.png written
    pk_saved_wav,           \* seped.wav written
    pk_saved_loss,          \* loss.png written
    pk_loss_plot,           \* the two loss histories drawn in loss.png
    pk_saved_metadata,      \* metadata.yaml written
    pk_exit,                \* how run_pkboo ended
    pk_params,              \* per parameter group: value, requires_grad, grad
    pk_optim                \* the parameter groups in the optimizer's list

pkbooVars == <<NUM_ITER, BATCH_SIZE, pk_pc, iter_idx, composite_batch,
               noise_mse_loss, alpha_reg_loss, losses1, losses2, trigger,
               whenstartdiverge, pk_previews, pk_interrupt_at, pk_pending,
               pk_saved_mel, pk_saved_wav, pk_saved_loss, pk_loss_plot,
               pk_saved_metadata, pk_exit, pk_params, pk_optim>>

VARIABLES
    \* ---- masking_torch_image ----
    mk_foreground,          \* the foreground tensor, a sequence of floats
    mk_alpha,               \* the alpha tensor, a sequence of floats
    mk_pc,                  \* "called" | "returned" | "raised"
    mk_error,               \* the exception that ended the call
    mk_blended              \* the tensor returned

maskVars == <<mk_foreground, mk_alpha, mk_pc, mk_error, mk_blended>>

VARIABLES
    \* ---- the latent scale factor and on_train_batch_start ----
    scale_by_std,           \* self.scale_by_std
    arg_scale_factor,       \* the constructor's scale_factor argument
    scale_factor,           \* self.scale_factor, a rational <<n, d>>
    restarted_from_ckpt,    \* self.restarted_from_ckpt
    accumulate_grad_batches,    \* batches per optimizer step
    num_training_batches,   \* batches per epoch
    current_epoch,          \* self.current_epoch
    global_step,            \* self.global_step
    tb_batch_idx,           \* batch_idx of the batch the trainer is at
    tb_pc,                  \* "start" | "body" | "done"
    tb_z_std,               \* z.flatten().std() of the batch the hook encoded
    sf_log                  \* the scale factors the hook has registered

scaleVars == <<scale_by_std, arg_scale_factor, scale_factor, restarted_from_ckpt,
               accumulate_grad_batches, num_training_batches, current_epoch,
               global_step, tb_batch_idx, tb_pc, tb_z_std, sf_log>>

VARIABLES
    \* ---- generate_sample: best-of-N selection and saving ----
    gs_num_batches,         \* batches the batchs iterable yields
    gs_batch_size,          \* z.shape[0], the inputs of a batch
    n_gen,                  \* candidates generated per input
    gs_pc,                  \* "loop" | "generated" | "selected" | "returned" | "raised"
    gs_i,                   \* the batch the loop is at, from 0
    gs_similarity,          \* the scores of the batch's candidates
    gs_clap_failed,         \* the scoring of the batch raised
    gs_clap_failures,       \* batches whose scoring has raised
    gs_waveform,            \* the rows of the batch kept in `waveform`
    gs_saved,               \* the files written for the batch: name, candidate
    gs_batches_saved,       \* batches whose save_waveform call has returned
    gs_error                \* the exception that left generate_sample

genVars == <<gs_num_batches, gs_batch_size, n_gen, gs_pc, gs_i, gs_similarity,
             gs_clap_failed, gs_clap_failures, gs_waveform, gs_saved,
             gs_batches_saved, gs_error>>

VARIABLES
    \* ---- sample_log: the choice of the sampler ----
    sl_ddim,                \* the ddim argument
    sl_use_plms,            \* the use_plms argument
    sl_mask,                \* a mask is given
    sl_kwargs,              \* the names of the caller's extra keyword arguments
    sl_pc,                  \* "called" | "selected" | "sampled" | "returned" | "raised"
    sl_sampler,             \* the branch taken: "ddim" | "plms" | "ddpm"
    sl_samples,             \* the sampler whose samples are bound to `samples`
    sl_intermediates,       \* the sampler whose list is bound to `intermediates`
    sl_result,              \* what sample_log returned
    sl_error                \* the exception that left sample_log

slogVars == <<sl_ddim, sl_use_plms, sl_mask, sl_kwargs, sl_pc, sl_sampler,
              sl_samples, sl_intermediates, sl_result, sl_error>>

VARIABLES
    \* ---- get_learned_conditioning: one call ----
    glc_registry,           \* the keys of self.cond_stage_model_metadata
    glc_c,                  \* the argument c
    glc_key,                \* the argument key
    glc_unconditional_cfg,  \* the argument unconditional_cfg
    glc_pc,                 \* "called" | "returned" | "raised"
    glc_calls,              \* the calls made on encoders: model, method, arg
    glc_return,             \* the call whose value was returned, or <<>>
    glc_error               \* the exception raised

glcVars == <<glc_registry, glc_c, glc_key, glc_unconditional_cfg, glc_pc,
             glc_calls, glc_return, glc_error>>

VARIABLES
    \* ---- DiffusionWrapper.forward: one call ----
    fw_cond_dict,           \* the argument cond_dict: its entries, in key order
    fw_pc,                  \* "called" | "returned" | "raised"
    fw_error,               \* the exception raised
    fw_error_at,            \* the entry the loop raised at, 0 if none
    fw_dispatch,            \* the branch taken for each entry the loop handled
    context_list,           \* context_list when the loop was left
    attn_mask_list,         \* attn_mask_list when the loop was left
    fw_denoiser_calls       \* the calls of self.diffusion_model

forwardVars == <<fw_cond_dict, fw_pc, fw_error, fw_error_at, fw_dispatch,
                 context_list, attn_mask_list, fw_denoiser_calls>>

VARIABLES
    \* ---- p_sample: one reverse step on a batch ----
    ps_t,                   \* the timestep of each sample of the batch
    ps_mean,                \* model_mean, for each sample
    ps_sigma,               \* (0.5 * model_log_variance).exp(), for each sample
    ps_noise,               \* the noise drawn, for each sample
    ps_pc,                  \* "called" | "returned"
    ps_out                  \* the value returned, for each sample

pstepVars == <<ps_t, ps_mean, ps_sigma, ps_noise, ps_pc, ps_out>>

VARIABLES
    \* ---- init_from_ckpt ----
    ck_names,               \* the names of the entries of the checkpoint
    ck_nested,              \* the entries are under a "state_dict" key
    ignore_keys,            \* the ignore_keys argument
    only_model,             \* the only_model argument
    ck_pc,                  \* "called" | "returned" | "raised"
    ck_loaded,              \* the names handed to load_state_dict
    ck_missing,             \* the missing names load_state_dict reported
    ck_unexpected,          \* the unexpected names load_state_dict reported
    ck_error                \* the exception raised

ckptVars == <<ck_names, ck_nested, ignore_keys, only_model, ck_pc, ck_loaded,
              ck_missing, ck_unexpected, ck_error>>

VARIABLES
    \* ---- shared_step and generate_sample: the bundle and the losses ----
    st_path,                \* "shared_step" | "generate_sample"
    st_registry,            \* the keys of cond_stage_config, in their order
    st_enc_out,             \* for each encoder, a tensor or a dict with its keys
    optimize_ddpm_parameter,
    training,               \* self.training
    st_pc,                  \* "called" | "got" | "stepped" | "returned" | "raised"
    st_c,                   \* the keys of the bundle get_input returned, in order
    st_wrapper_calls,       \* the key sequences the Denoiser Wrapper was called with
    st_loss,                \* the local loss, NoneArg for None
    st_loss_dict,           \* the keys of loss_dict
    st_error                \* the exception raised

stepVars == <<st_path, st_registry, st_enc_out, optimize_ddpm_parameter,
              training, st_pc, st_c, st_wrapper_calls, st_loss, st_loss_dict,
              st_error>>

VARIABLES
    \* ---- LatentDiffusion.register_schedule: the conditioning schedule ----
    cs_num_timesteps,       \* self.num_timesteps
    num_timesteps_cond,     \* self.num_timesteps_cond
    cs_pc,                  \* "called" | "shorten" | "filled" | "registered"
    shorten_cond_schedule,  \* self.shorten_cond_schedule
    cond_ids                \* self.cond_ids, <<>> while it is not set

condVars == <<cs_num_timesteps, num_timesteps_cond, cs_pc, shorten_cond_schedule,
              cond_ids>>

VARIABLES
    \* ---- the validation hooks and random_clap_condition ----
    vl_cond_stage_key,      \* the CLAP descriptor's metadata["cond_stage_key"]
    vl_embed_mode,          \* the CLAP encoder's embed_mode
    use_gt_mae_output,      \* the AudioMAE encoder's use_gt_mae_output
    use_gt_mae_prob,        \* the AudioMAE encoder's use_gt_mae_prob, in tenths
    cond_stage_key_orig,    \* metadata["cond_stage_key_orig"], "missing" if absent
    embed_mode_orig,        \* metadata["embed_mode_orig"], "missing" if absent
    use_gt_mae_output_orig, \* <<value>>, <<>> while the entry is absent
    use_gt_mae_prob_orig,   \* <<value>>, <<>> while the entry is absent
    vl_global_rank,         \* self.global_rank
    vl_evaluator,           \* self.evaluator is not None
    test_data_subset_path,  \* self.test_data_subset_path is not None
    metrics_buffer,         \* "empty" | "filled"
    vl_pc,                  \* "training" | "validating" | "ended" | "raised"
    vl_error,               \* the exception that left on_validation_epoch_end
    vl_before,              \* the four settings just before the last epoch start
    vl_calls                \* hook and step calls made so far

valVars == <<vl_cond_stage_key, vl_embed_mode, use_gt_mae_output, use_gt_mae_prob,
             cond_stage_key_orig, embed_mode_orig, use_gt_mae_output_orig,
             use_gt_mae_prob_orig, vl_global_rank, vl_evaluator,
             test_data_subset_path, metrics_buffer, vl_pc, vl_error, vl_before,
             vl_calls>>

VARIABLES
    \* ---- AudioPeekabooSeparator ----
    sp_foreground,          \* self.foreground
    sp_log_mel_spec,        \* self.data['log_mel_spec'], the shared batch dict
    sp_original,            \* data['log_mel_spec'] as given to the constructor
    sp_previous,            \* data['log_mel_spec'] before the latest forward
    sp_alpha,               \* the alpha of the latest forward, <<>> before any
    sp_pc,                  \* "constructed" | "returned" | "raised"
    sp_calls                \* forward calls made so far

sepVars == <<sp_foreground, sp_log_mel_spec, sp_original, sp_previous, sp_alpha,
             sp_pc, sp_calls>>

vars == <<emaVars, sampleVars, cfgVars, wrapperVars, scheduleVars, pkbooVars,
          maskVars, scaleVars, genVars, slogVars, glcVars, forwardVars,
          pstepVars, ckptVars, stepVars, condVars, valVars, sepVars>>

\* The variables of the other parts, which a part's actions leave alone.
notEmaVars == <<sampleVars, cfgVars, wrapperVars, scheduleVars, pkbooVars,
                maskVars, scaleVars, genVars, slogVars, glcVars, forwardVars,
                pstepVars, ckptVars, stepVars, condVars, valVars, sepVars>>
notSampleVars == <<emaVars, cfgVars, wrapperVars, scheduleVars, pkbooVars,
                   maskVars, scaleVars, genVars, slogVars, glcVars,
                   forwardVars, pstepVars, ckptVars, stepVars, condVars,
                   valVars, sepVars>>
notCfgVars == <<emaVars, sampleVars, wrapperVars, scheduleVars, pkbooVars,
                maskVars, scaleVars, genVars, slogVars, glcVars, forwardVars,
                pstepVars, ckptVars, stepVars, condVars, valVars, sepVars>>
notWrapperVars == <<emaVars, sampleVars, cfgVars, scheduleVars, pkbooVars,
                    maskVars, scaleVars, genVars, slogVars, glcVars,
                    forwardVars, pstepVars, ckptVars, stepVars, condVars,
                    valVars, sepVars>>
notScheduleVars == <<emaVars, sampleVars, cfgVars, wrapperVars, pkbooVars,
                     maskVars, scaleVars, genVars, slogVars, glcVars,
                     forwardVars, pstepVars, ckptVars, stepVars, condVars,
                     valVars, sepVars>>
notPkbooVars == <<emaVars, sampleVars, cfgVars, wrapperVars, scheduleVars,
                  maskVars, scaleVars, genVars, slogVars, glcVars, forwardVars,
                  pstepVars, ckptVars, stepVars, condVars, valVars, sepVars>>
notMaskVars == <<emaVars, sampleVars, cfgVars, wrapperVars, scheduleVars,
                 pkbooVars, scaleVars, genVars, slogVars, glcVars, forwardVars,
                 pstepVars, ckptVars, stepVars, condVars, valVars, sepVars>>
notScaleVars == <<emaVars, sampleVars, cfgVars, wrapperVars, scheduleVars,
                  pkbooVars, maskVars, genVars, slogVars, glcVars, forwardVars,
                  pstepVars, ckptVars, stepVars, condVars, valVars, sepVars>>
notGenVars == <<emaVars, sampleVars, cfgVars, wrapperVars, scheduleVars,
                pkbooVars, maskVars, scaleVars, slogVars, glcVars, forwardVars,
                pstepVars, ckptVars, stepVars, condVars, valVars, sepVars>>
notSlogVars == <<emaVars, sampleVars, cfgVars, wrapperVars, scheduleVars,
                 pkbooVars, maskVars, scaleVars, genVars, glcVars, forwardVars,
                 pstepVars, ckptVars, stepVars, condVars, valVars, sepVars>>
notGlcVars == <<emaVars, sampleVars, cfgVars, wrapperVars, scheduleVars,
                pkbooVars, maskVars, scaleVars, genVars, slogVars, forwardVars,
                pstepVars, ckptVars, stepVars, condVars, valVars, sepVars>>
notForwardVars == <<emaVars, sampleVars, cfgVars, wrapperVars, scheduleVars,
                    pkbooVars, maskVars, scaleVars, genVars, slogVars, glcVars,
                    pstepVars, ckptVars, stepVars, condVars, valVars, sepVars>>
notPstepVars == <<emaVars, sampleVars, cfgVars, wrapperVars, scheduleVars,
                  pkbooVars, maskVars, scaleVars, genVars, slogVars, glcVars,
                  forwardVars, ckptVars, stepVars, condVars, valVars, sepVars>>
notCkptVars == <<emaVars, sampleVars, cfgVars, wrapperVars, scheduleVars,
                 pkbooVars, maskVars, scaleVars, genVars, slogVars, glcVars,
                 forwardVars, pstepVars, stepVars, condVars, valVars, sepVars>>
notStepVars == <<emaVars, sampleVars, cfgVars, wrapperVars, scheduleVars,
                 pkbooVars, maskVars, scaleVars, genVars, slogVars, glcVars,
                 forwardVars, pstepVars, ckptVars, condVars, valVars, sepVars>>
notCondVars == <<emaVars, sampleVars, cfgVars, wrapperVars, scheduleVars,
                 pkbooVars, maskVars, scaleVars, genVars, slogVars, glcVars,
                 forwardVars, pstepVars, ckptVars, stepVars, valVars, sepVars>>
notValVars == <<emaVars, sampleVars, cfgVars, wrapperVars, scheduleVars,
                pkbooVars, maskVars, scaleVars, genVars, slogVars, glcVars,
                forwardVars, pstepVars, ckptVars, stepVars, condVars, sepVars>>
notSepVars == <<emaVars, sampleVars, cfgVars, wrapperVars, scheduleVars,
                pkbooVars, maskVars, scaleVars, genVars, slogVars, glcVars,
                forwardVars, pstepVars, ckptVars, stepVars, condVars, valVars>>

(***************************************************************************)
(* Bounds of the model.                                                    *)
(***************************************************************************)
MaxParam == 2       \* weights are drawn from 0..MaxParam
MaxBatches == 2     \* batches generate_sample iterates over

NoParams == "NoParams"
ParamVals == 0..MaxParam

(***************************************************************************)
(* DDPM.ema_scope, with the LitEma operations it calls.                    *)
(***************************************************************************)
\* LitEma.store(parameters): keeps a copy of the live weights.
LitEmaStore(live) == live

\* LitEma.copy_to(model): the shadow weights become the live weights.
LitEmaCopyTo(shadow) == shadow

\* LitEma.restore(parameters): the stored copy becomes the live weights.
LitEmaRestore(collected) == collected

\* LitEma.forward(model): the shadow moves toward the live weights.
LitEmaUpdate(shadow, live) ==
    IF shadow < live THEN shadow + 1
    ELSE IF shadow > live THEN shadow - 1
    ELSE shadow

EmaOff ==
    /\ use_ema = FALSE
    /\ model_params = 0
    /\ shadow_params = NoParams
    /\ collected_params = NoParams
    /\ ema_pc = "outside"
    /\ ema_entry_params = 0
    /\ ema_exit_kind = "none"
    /\ ema_batches = 0

\* DDPM.__init__: the live weights, and an EMA copy of them when use_ema.
EmaInit ==
    /\ use_ema \in BOOLEAN
    /\ model_params \in ParamVals
    /\ shadow_params = IF use_ema THEN model_params ELSE NoParams
    /\ collected_params = NoParams
    /\ ema_pc = "outside"
    /\ ema_entry_params = model_params
    /\ ema_exit_kind = "none"
    /\ ema_batches = 0

\* One training batch: the optimizer step changes the live weights, then
\* on_train_batch_end updates the shadow when use_ema.
TrainBatch ==
    /\ ema_pc \in {"outside", "exited"}
    /\ UNCHANGED notEmaVars
    /\ \E p \in ParamVals :
          /\ model_params' = p
          /\ shadow_params' = IF use_ema THEN LitEmaUpdate(shadow_params, p)
                              ELSE shadow_params
    /\ ema_pc' = "outside"
    /\ UNCHANGED <<use_ema, collected_params, ema_entry_params, ema_exit_kind,
                   ema_batches>>

\* ema_scope up to its yield: store the live weights, copy the EMA in.
EmaScopeEnter ==
    /\ ema_pc \in {"outside", "exited"}
    /\ UNCHANGED notEmaVars
    /\ ema_entry_params' = model_params
    /\ IF use_ema
          THEN /\ collected_params' = LitEmaStore(model_params)
               /\ model_params' = LitEmaCopyTo(shadow_params)
          ELSE UNCHANGED <<collected_params, model_params>>
    /\ ema_pc' = "body"
    /\ ema_exit_kind' = "none"
    /\ ema_batches' = 0
    /\ UNCHANGED <<use_ema, shadow_params>>

\* generate_sample's loop body for one batch, under torch.no_grad(): it reads the
\* live weights and writes none.
EmaBodyBatch ==
    /\ ema_pc = "body"
    /\ UNCHANGED notEmaVars
    /\ ema_batches < MaxBatches
    /\ ema_batches' = ema_batches + 1
    /\ UNCHANGED <<use_ema, model_params, shadow_params, collected_params, ema_pc,
                   ema_entry_params, ema_exit_kind>>

\* The finally clause of ema_scope.
EmaScopeFinally ==
    IF use_ema
       THEN model_params' = LitEmaRestore(collected_params)
       ELSE UNCHANGED model_params

\* The body ends normally: the generator resumes after the yield and runs finally.
EmaScopeExitNormal ==
    /\ ema_pc = "body"
    /\ UNCHANGED notEmaVars
    /\ EmaScopeFinally
    /\ ema_pc' = "exited"
    /\ ema_exit_kind' = "normal"
    /\ UNCHANGED <<use_ema, shadow_params, collected_params, ema_entry_params,
                   ema_batches>>

EmaScopeExitException_NoFinally ==
    /\ ema_pc = "body"
    /\ UNCHANGED notEmaVars
    /\ UNCHANGED model_params
    /\ ema_pc' = "exited"
    /\ ema_exit_kind' = "exception"
    /\ UNCHANGED <<use_ema, shadow_params, collected_params, ema_entry_params,
                   ema_batches>>

\* The body raises: the exception is thrown into the generator at the yield, and
\* finally runs before it propagates.
EmaScopeExitException ==
    /\ ema_pc = "body"
    /\ UNCHANGED notEmaVars
    /\ EmaScopeFinally
    /\ ema_pc' = "exited"
    /\ ema_exit_kind' = "exception"
    /\ UNCHANGED <<use_ema, shadow_params, collected_params, ema_entry_params,
                   ema_batches>>


(***************************************************************************)
(* Construction (DDPM.__init__), p_losses, p_mean_variance, p_sample and   *)
(* the ancestral loops: DDPM.p_sample_loop, LatentDiffusion.p_sample_loop  *)
(* and LatentDiffusion.progressive_denoising.                              *)
(*                                                                         *)
(* A latent is held as its provenance: hist, the timesteps of the p_sample *)
(* calls that produced it from the initial noise, and kind, "x" for a      *)
(* p_sample result (and the initial noise), "blend" for a result blended   *)
(* with the noised known region, "x0" for p_sample's x0 estimate.          *)
(***************************************************************************)
MaxT == 3           \* schedule lengths are drawn from MinT..MaxT
MaxLogEvery == 2    \* log_every_t is drawn from 1..MaxLogEvery

\* lvlb_weights[0] = lvlb_weights[1] (ddpm.py:243) ends register_schedule, and
\* with it the constructor, with an IndexError on a schedule shorter than this.
MinT == 2
NoneArg == -1

Parameterizations == {"eps", "x0", "v", "mu"}

InitialLatent == [hist |-> <<>>, kind |-> "x"]

SampleOff ==
    /\ dm_class = "DDPM"
    /\ parameterization = "eps"
    /\ num_timesteps = MinT
    /\ self_log_every_t = 1
    /\ sm_pc = "new"
    /\ sm_error = "none"
    /\ loss_target = "none"
    /\ loop_kind = "none"
    /\ arg_timesteps = NoneArg
    /\ arg_start_T = NoneArg
    /\ arg_log_every_t = 0
    /\ arg_mask = FALSE
    /\ arg_callback = FALSE
    /\ arg_img_callback = FALSE
    /\ timesteps = 0
    /\ loop_iter = <<>>
    /\ img = InitialLatent
    /\ intermediates = <<>>
    /\ p_calls = <<>>
    /\ step_out = <<>>
    /\ callback_log = <<>>
    /\ img_callback_log = <<>>

\* The arguments of a constructor call that is about to run.
SampleInit ==
    /\ dm_class \in {"DDPM", "LatentDiffusion"}
    /\ parameterization \in Parameterizations
    /\ num_timesteps \in MinT..MaxT
    /\ self_log_every_t \in 1..MaxLogEvery
    /\ sm_pc = "new"
    /\ sm_error = "none"
    /\ loss_target = "none"
    /\ loop_kind = "none"
    /\ arg_timesteps = NoneArg
    /\ arg_start_T = NoneArg
    /\ arg_log_every_t = 0
    /\ arg_mask = FALSE
    /\ arg_callback = FALSE
    /\ arg_img_callback = FALSE
    /\ timesteps = 0
    /\ loop_iter = <<>>
    /\ img = InitialLatent
    /\ intermediates = <<>>
    /\ p_calls = <<>>
    /\ step_out = <<>>
    /\ callback_log = <<>>
    /\ img_callback_log = <<>>

configVars == <<dm_class, parameterization, num_timesteps, self_log_every_t>>
loopArgVars == <<loop_kind, arg_timesteps, arg_start_T, arg_log_every_t, arg_mask,
                 arg_callback, arg_img_callback>>
loopVars == <<timesteps, loop_iter, img, intermediates, p_calls, step_out,
              callback_log, img_callback_log>>

\* DDPM.__init__'s check of its parameterization argument (an assert).
ParameterizationAccepted(p) == p \in {"eps", "x0", "v"}

\* DDPM.__init__ (LatentDiffusion.__init__ runs it through super().__init__).
Construct ==
    /\ sm_pc = "new"
    /\ UNCHANGED notSampleVars
    /\ IF ParameterizationAccepted(parameterization)
          THEN /\ sm_pc' = "ready"
               /\ sm_error' = "none"
          ELSE /\ sm_pc' = "rejected"
               /\ sm_error' = "AssertionError"
    /\ UNCHANGED <<configVars, loss_target, loopArgVars, loopVars>>

\* The target p_losses picks (DDPM.p_losses and LatentDiffusion.p_losses pick the
\* same), or the exception of its else branch.
PLossesTarget(p) ==
    IF p = "eps" THEN "noise"
    ELSE IF p = "x0" THEN "x_start"
    ELSE IF p = "v" THEN "get_v"
    ELSE "NotImplementedError"

\* One p_losses call (a training or validation forward pass).
PLosses ==
    /\ sm_pc = "ready"
    /\ UNCHANGED notSampleVars
    /\ LET r == PLossesTarget(parameterization)
       IN  IF r = "NotImplementedError"
              THEN /\ sm_pc' = "raised"
                   /\ sm_error' = "NotImplementedError"
                   /\ UNCHANGED loss_target
              ELSE /\ sm_pc' = "ready"
                   /\ sm_error' = "none"
                   /\ loss_target' = r
    /\ UNCHANGED <<configVars, loopArgVars, loopVars>>

\* What p_mean_variance does for a parameterization: "ok" when it returns the
\* posterior of its x0 estimate, else the exception that ends it.
\* LatentDiffusion.p_mean_variance has an else branch that raises;
\* DDPM.p_mean_variance has none and reads x_recon unassigned.
PMeanVariance(cls, p) ==
    IF p \in {"eps", "x0"} THEN "ok"
    ELSE IF cls = "LatentDiffusion" THEN "NotImplementedError"
    ELSE "UnboundLocalError"

\* p_sample(x, t): the sampled latent, and with return_x0 the x0 estimate.
PSample(x, t) == [hist |-> Append(x.hist, t), kind |-> "x"]
PSampleX0(x, t) == [hist |-> Append(x.hist, t), kind |-> "x0"]

\* img_orig * mask + (1.0 - mask) * img
MaskBlend(x) == [hist |-> x.hist, kind |-> "blend"]

ReversedRange_Forward(n) == [k \in 1..n |-> k - 1]

\* reversed(range(0, n)): n-1, n-2, ..., 0
ReversedRange(n) == [k \in 1..n |-> n - k]

LogEveryT_SelfOnly == self_log_every_t

\* default / `if not log_every_t: log_every_t = self.log_every_t`
LogEveryT == IF arg_log_every_t = 0 THEN self_log_every_t ELSE arg_log_every_t

LoopTimesteps_DownToStartT(given, T, start_T) ==
    IF given = NoneArg THEN T ELSE given

\* The loop's `timesteps`: the argument or self.num_timesteps, then
\* `if start_T is not None: timesteps = min(timesteps, start_T)`.
LoopTimesteps(given, T, start_T) ==
    LET n == IF given = NoneArg THEN T ELSE given
    IN  IF start_T = NoneArg THEN n
        ELSE IF start_T < n THEN start_T ELSE n

\* A loop is called and runs up to its for statement; with nothing to iterate it
\* returns at once.
LoopEnter(kind, ts, first) ==
    /\ loop_kind' = kind
    /\ timesteps' = ts
    /\ loop_iter' = ReversedRange(ts)
    /\ img' = InitialLatent
    /\ intermediates' = first
    /\ p_calls' = <<>>
    /\ step_out' = <<>>
    /\ callback_log' = <<>>
    /\ img_callback_log' = <<>>
    /\ sm_pc' = IF ts = 0 THEN "returned" ELSE "loop"
    /\ sm_error' = "none"
    /\ UNCHANGED <<configVars, loss_target>>

\* DDPM.p_sample_loop(shape, return_intermediates)
CallDDPMPSampleLoop ==
    /\ sm_pc = "ready"
    /\ UNCHANGED notSampleVars
    /\ dm_class = "DDPM"
    /\ arg_timesteps' = NoneArg
    /\ arg_start_T' = NoneArg
    /\ arg_log_every_t' = 0
    /\ arg_mask' = FALSE
    /\ arg_callback' = FALSE
    /\ arg_img_callback' = FALSE
    /\ LoopEnter("DDPM.p_sample_loop", num_timesteps, <<InitialLatent>>)

\* LatentDiffusion.p_sample_loop(cond, shape, ..., timesteps, mask, x0,
\* callback, img_callback, start_T, log_every_t)
CallPSampleLoop ==
    /\ sm_pc = "ready"
    /\ UNCHANGED notSampleVars
    /\ dm_class = "LatentDiffusion"
    /\ \E ts \in {NoneArg} \cup 0..num_timesteps, st \in {NoneArg} \cup 0..(MaxT + 1),
          le \in 0..MaxLogEvery, m \in BOOLEAN, cb \in BOOLEAN, icb \in BOOLEAN :
          /\ arg_timesteps' = ts
          /\ arg_start_T' = st
          /\ arg_log_every_t' = le
          /\ arg_mask' = m
          /\ arg_callback' = cb
          /\ arg_img_callback' = icb
          /\ LoopEnter("p_sample_loop", LoopTimesteps(ts, num_timesteps, st),
                       <<InitialLatent>>)

\* LatentDiffusion.progressive_denoising(cond, shape, ..., callback,
\* img_callback, mask, x0, start_T, log_every_t)
CallProgressiveDenoising ==
    /\ sm_pc = "ready"
    /\ UNCHANGED notSampleVars
    /\ dm_class = "LatentDiffusion"
    /\ \E st \in {NoneArg} \cup 0..(MaxT + 1), le \in 0..MaxLogEvery,
          m \in BOOLEAN, cb \in BOOLEAN, icb \in BOOLEAN :
          /\ arg_timesteps' = NoneArg
          /\ arg_start_T' = st
          /\ arg_log_every_t' = le
          /\ arg_mask' = m
          /\ arg_callback' = cb
          /\ arg_img_callback' = icb
          /\ LoopEnter("progressive_denoising",
                       LoopTimesteps(NoneArg, num_timesteps, st), <<>>)

\* The rest of an iteration once the iteration's latent is known, and the loop's
\* return after its last iteration.
LoopIterationEnd(i, new_img, recorded, logged) ==
    /\ img' = new_img
    /\ intermediates' = IF logged THEN Append(intermediates, recorded)
                        ELSE intermediates
    /\ step_out' = Append(step_out, new_img)
    /\ callback_log' = IF arg_callback THEN Append(callback_log, i)
                       ELSE callback_log
    /\ img_callback_log' = IF arg_img_callback
                              THEN Append(img_callback_log, [img |-> new_img, i |-> i])
                              ELSE img_callback_log
    /\ loop_iter' = Tail(loop_iter)
    /\ sm_pc' = IF Len(loop_iter) = 1 THEN "returned" ELSE "loop"
    /\ UNCHANGED sm_error

\* p_sample raised inside an iteration: the exception leaves the loop.
LoopIterationRaise(err) ==
    /\ sm_pc' = "raised"
    /\ sm_error' = err
    /\ UNCHANGED <<img, intermediates, step_out, callback_log, img_callback_log,
                   loop_iter>>

\* The latent an iteration hands to p_sample: the loop's `img`.
PSampleInput(x) == x

\* One iteration of DDPM.p_sample_loop.
DDPMPSampleLoopStep ==
    /\ sm_pc = "loop"
    /\ UNCHANGED notSampleVars
    /\ loop_kind = "DDPM.p_sample_loop"
    /\ LET i == Head(loop_iter)
           x == PSampleInput(img)
           r == PMeanVariance("DDPM", parameterization)
       IN  /\ p_calls' = Append(p_calls, [t |-> i, x |-> x])
           /\ IF r = "ok"
                 THEN LoopIterationEnd(i, PSample(x, i), PSample(x, i),
                          i % self_log_every_t = 0 \/ i = num_timesteps - 1)
                 ELSE LoopIterationRaise(r)
    /\ UNCHANGED <<configVars, loss_target, loopArgVars, timesteps>>

\* One iteration of LatentDiffusion.p_sample_loop.
PSampleLoopStep ==
    /\ sm_pc = "loop"
    /\ UNCHANGED notSampleVars
    /\ loop_kind = "p_sample_loop"
    /\ LET i == Head(loop_iter)
           x == PSampleInput(img)
           r == PMeanVariance("LatentDiffusion", parameterization)
           out == IF arg_mask THEN MaskBlend(PSample(x, i)) ELSE PSample(x, i)
       IN  /\ p_calls' = Append(p_calls, [t |-> i, x |-> x])
           /\ IF r = "ok"
                 THEN LoopIterationEnd(i, out, out,
                          i % LogEveryT = 0 \/ i = timesteps - 1)
                 ELSE LoopIterationRaise(r)
    /\ UNCHANGED <<configVars, loss_target, loopArgVars, timesteps>>

\* One iteration of LatentDiffusion.progressive_denoising.
ProgressiveDenoisingStep ==
    /\ sm_pc = "loop"
    /\ UNCHANGED notSampleVars
    /\ loop_kind = "progressive_denoising"
    /\ LET i == Head(loop_iter)
           x == PSampleInput(img)
           r == PMeanVariance("LatentDiffusion", parameterization)
           out == IF arg_mask THEN MaskBlend(PSample(x, i)) ELSE PSample(x, i)
       IN  /\ p_calls' = Append(p_calls, [t |-> i, x |-> x])
           /\ IF r = "ok"
                 THEN LoopIterationEnd(i, out, PSampleX0(x, i),
                          i % LogEveryT = 0 \/ i = timesteps - 1)
                 ELSE LoopIterationRaise(r)
    /\ UNCHANGED <<configVars, loss_target, loopArgVars, timesteps>>

\* The call has ended (p_losses raised, or a loop returned or raised) and its
\* caller goes on: the call's arguments and locals are gone.
CallerResumes ==
    /\ sm_pc \in {"returned", "raised"}
    /\ UNCHANGED notSampleVars
    /\ sm_pc' = "ready"
    /\ sm_error' = "none"
    /\ loop_kind' = "none"
    /\ arg_timesteps' = NoneArg
    /\ arg_start_T' = NoneArg
    /\ arg_log_every_t' = 0
    /\ arg_mask' = FALSE
    /\ arg_callback' = FALSE
    /\ arg_img_callback' = FALSE
    /\ timesteps' = 0
    /\ loop_iter' = <<>>
    /\ img' = InitialLatent
    /\ intermediates' = <<>>
    /\ p_calls' = <<>>
    /\ step_out' = <<>>
    /\ callback_log' = <<>>
    /\ img_callback_log' = <<>>
    /\ UNCHANGED <<configVars, loss_target>>

(***************************************************************************)
(* LatentDiffusion.get_input: the conditioning bundle and the              *)
(* classifier-free-guidance dropout (make_decision,                        *)
(* get_learned_conditioning).                                              *)
(*                                                                         *)
(* Probabilities and torch.rand's draws are held in RandSteps-ths: a       *)
(* draw r stands for r / RandSteps, in [0, 1), and a probability p for     *)
(* p / RandSteps, in [0, 1].                                               *)
(***************************************************************************)
RandSteps == 3      \* torch.rand(1) is drawn from {0, 1/RandSteps, ...} below 1
MaxCond == 2        \* conditioning encoders registered

\* The names an encoder is registered under, and the keys encoders return.
RegisteredNames == {"crossattn_text", "film_clap"}
BundleKeys == RegisteredNames \cup {"noncond_loss_clap"}

TensorOut == {"<tensor>"}
XcTypes == {"Tensor", "list", "other"}

\* The registries of at most MaxCond encoders, each under a name of its own.
Registries ==
    {ks \in UNION {[1..n -> RegisteredNames] : n \in 0..MaxCond} :
        \A a, b \in 1..Len(ks) : a # b => ks[a] # ks[b]}

SeqKeys(ks) == {ks[a] : a \in 1..Len(ks)}

EmptyBundle == [k \in BundleKeys |-> "absent"]

CfgOff ==
    /\ cond_keys = <<>>
    /\ enc_out = <<>>
    /\ conditional_dry_run_finished = FALSE
    /\ gi_pc = "idle"
    /\ gi_error = "none"
    /\ gi_prob = 0
    /\ gi_rand = 0
    /\ gi_dry_before = FALSE
    /\ unconditional_cfg = FALSE
    /\ enc_calls = <<>>
    /\ cond_dict = EmptyBundle

\* LatentDiffusion.__init__ / instantiate_cond_stage: the registry, in the order
\* of cond_stage_config, and conditional_dry_run_finished = False.
CfgInit ==
    /\ cond_keys \in Registries
    /\ enc_out \in [1..Len(cond_keys) -> {TensorOut} \cup (SUBSET BundleKeys)]
    /\ conditional_dry_run_finished = FALSE
    /\ gi_pc = "idle"
    /\ gi_error = "none"
    /\ gi_prob = 0
    /\ gi_rand = 0
    /\ gi_dry_before = FALSE
    /\ unconditional_cfg = FALSE
    /\ enc_calls = <<>>
    /\ cond_dict = EmptyBundle

MakeDecision_AtMost(r, probability) == r <= probability

MakeDecision_Below(r, probability) == r + 1 < probability

\* make_decision(probability), with r the draw of torch.rand(1).
MakeDecision(r, probability) == r < probability

EncoderFlag_FirstOnly(flag, a) == flag /\ a = 1

\* The unconditional_cfg argument get_input passes to get_learned_conditioning
\* for the a-th encoder of the registry.
EncoderFlag(flag, a) == flag

\* get_learned_conditioning(c, key, unconditional_cfg) for the a-th encoder on an
\* input of type xc: the call made on the encoder, or the exception.
GetLearnedConditioning(a, xc, uncond) ==
    IF ~uncond THEN "real"
    ELSE IF xc \in {"Tensor", "list"} THEN "uncond"
    ELSE "NotImplementedError"

\* cond_dict after the value c of the a-th encoder is stored: cond_dict.update(c)
\* for a dict, cond_dict[cond_model_key] = c otherwise.
StoreConditioning(d, a, made) ==
    LET written == IF enc_out[a] = TensorOut THEN {cond_keys[a]} ELSE enc_out[a]
    IN  [k \in BundleKeys |-> IF k \in written THEN made ELSE d[k]]

\* The loop of get_input over cond_stage_model_metadata, from the a-th encoder
\* on: acc holds cond_dict, the encoder calls made and the exception raised.
RECURSIVE EncodeFrom(_, _, _, _)
EncodeFrom(a, flag, xcs, acc) ==
    IF a > Len(cond_keys) \/ acc.err # "none" THEN acc
    ELSE IF acc.dict[cond_keys[a]] # "absent"
       THEN EncodeFrom(a + 1, flag, xcs, acc)
    ELSE LET made == GetLearnedConditioning(a, xcs[a], EncoderFlag(flag, a))
         IN  IF made = "NotImplementedError"
                THEN [acc EXCEPT !.err = made]
                ELSE EncodeFrom(a + 1, flag, xcs,
                        [dict |-> StoreConditioning(acc.dict, a, made),
                         calls |-> Append(acc.calls,
                                     [key |-> cond_keys[a], mode |-> made]),
                         err |-> "none"])

\* One get_input call with unconditional_prob_cfg = p / RandSteps, in which
\* torch.rand(1) draws r / RandSteps and the encoders' inputs have types xcs.
GetInput ==
    /\ UNCHANGED notCfgVars
    /\ \E p \in 0..RandSteps, r \in 0..(RandSteps - 1),
          xcs \in [1..Len(cond_keys) -> XcTypes] :
          LET flag == IF Len(cond_keys) > 0
                         THEN conditional_dry_run_finished /\ MakeDecision(r, p)
                         ELSE FALSE
              res == EncodeFrom(1, flag, xcs,
                        [dict |-> EmptyBundle, calls |-> <<>>, err |-> "none"])
          IN  /\ gi_prob' = p
              /\ gi_rand' = r
              /\ gi_dry_before' = conditional_dry_run_finished
              /\ unconditional_cfg' = flag
              /\ enc_calls' = res.calls
              /\ cond_dict' = res.dict
              /\ gi_error' = res.err
              /\ IF res.err = "none"
                    THEN /\ gi_pc' = "returned"
                         /\ conditional_dry_run_finished' = TRUE
                    ELSE /\ gi_pc' = "raised"
                         /\ UNCHANGED conditional_dry_run_finished
    /\ UNCHANGED <<cond_keys, enc_out>>

(***************************************************************************)
(* DiffusionWrapper.__init__: the check of the conditioning keys.          *)
(*                                                                         *)
(* A key is a name; KeyText gives its characters, on which Python's `in`   *)
(* on strings (substring search) is computed.                              *)
(***************************************************************************)
MaxWrapperKeys == 2     \* keys in the conditioning_key list

KeyNames == {"concat_mix", "crossattn_flan_t5", "hybrid", "film_clap_cond1", "noncond_loss_clap2audiomae",
             "adm", "text", "cross_attn", "FiLM"}

KeyText(name) ==
    IF name = "concat_mix" THEN
        <<"c", "o", "n", "c", "a", "t", "_", "m", "i", "x">>
    ELSE IF name = "crossattn_flan_t5" THEN
        <<"c", "r", "o", "s", "s", "a", "t", "t", "n", "_", "f", "l", "a",
          "n", "_", "t", "5">>
    ELSE IF name = "hybrid" THEN
        <<"h", "y", "b", "r", "i", "d">>
    ELSE IF name = "film_clap_cond1" THEN
        <<"f", "i", "l", "m", "_", "c", "l", "a", "p", "_", "c", "o", "n",
          "d", "1">>
    ELSE IF name = "noncond_loss_clap2audiomae" THEN
        <<"n", "o", "n", "c", "o", "n", "d", "_", "l", "o", "s", "s", "_",
          "c", "l", "a", "p", "2", "a", "u", "d", "i", "o", "m", "a", "e">>
    ELSE IF name = "adm" THEN
        <<"a", "d", "m">>
    ELSE IF name = "text" THEN
        <<"t", "e", "x", "t">>
    ELSE IF name = "cross_attn" THEN
        <<"c", "r", "o", "s", "s", "_", "a", "t", "t", "n">>
    ELSE IF name = "FiLM" THEN
        <<"F", "i", "L", "M">>
    ELSE IF name = "noncond_clap" THEN
        <<"n", "o", "n", "c", "o", "n", "d", "_", "c", "l", "a", "p">>
    ELSE IF name = "crossattn_audiomae_pooled" THEN
        <<"c", "r", "o", "s", "s", "a", "t", "t", "n", "_", "a", "u", "d",
          "i", "o", "m", "a", "e", "_", "p", "o", "o", "l", "e", "d">>
    ELSE <<>>

\* Python's `sub in text` on strings.
Contains(text, sub) ==
    \E a \in 0..(Len(text) - Len(sub)) : SubSeq(text, a + 1, a + Len(sub)) = sub

\* The substrings DiffusionWrapper.__init__ looks for in a key.
FusionModes ==
    {<<"c", "o", "n", "c", "a", "t">>,
     <<"c", "r", "o", "s", "s", "a", "t", "t", "n">>,
     <<"h", "y", "b", "r", "i", "d">>,
     <<"f", "i", "l", "m">>,
     <<"n", "o", "n", "c", "o", "n", "d">>}

\* The condition of the if statement in the constructor's loop.
KeyIsLegal(name) == \E m \in FusionModes : Contains(KeyText(name), m)

\* "The conditioning key %s is illegal" % key
IllegalKeyMessage(name) ==
    <<"T", "h", "e", " ", "c", "o", "n", "d", "i", "t", "i", "o", "n", "i", "n",
      "g", " ", "k", "e", "y", " ">>
    \o KeyText(name) \o
    <<" ", "i", "s", " ", "i", "l", "l", "e", "g", "a", "l">>

\* The one-character type codes of multiprocessing.sharedctypes.
Typecodes == {"c", "u", "b", "B", "h", "H", "i", "I", "l", "L", "q", "Q", "f", "d"}

\* Value(message), with Value imported from multiprocessing.sharedctypes
\* (ddpm.py:6): sharedctypes.Value(typecode_or_type) allocates a ctypes object
\* of that type, and ctypes.sizeof raises TypeError for a string that is no type
\* code. For a type code it returns a shared object, and `raise` of an object
\* that is no exception raises TypeError as well.
RaiseValue(message) ==
    IF Len(message) = 1 /\ message[1] \in Typecodes
       THEN "TypeError"
       ELSE "TypeError"

WrapperOff ==
    /\ wr_conditioning_key = <<>>
    /\ wr_pc = "new"
    /\ wr_error = "none"
    /\ wr_error_key = "none"

\* The arguments of a DiffusionWrapper constructor call that is about to run.
WrapperInit ==
    /\ wr_conditioning_key \in UNION {[1..n -> KeyNames] : n \in 0..MaxWrapperKeys}
    /\ wr_pc = "new"
    /\ wr_error = "none"
    /\ wr_error_key = "none"

\* The position of the first key of the list the loop raises at, 0 if none.
RECURSIVE FirstIllegal(_, _)
FirstIllegal(keys, a) ==
    IF a > Len(keys) THEN 0
    ELSE IF KeyIsLegal(keys[a]) THEN FirstIllegal(keys, a + 1)
    ELSE a

\* DiffusionWrapper.__init__(diff_model_config, conditioning_key)
DiffusionWrapperInit ==
    /\ wr_pc = "new"
    /\ UNCHANGED notWrapperVars
    /\ LET a == FirstIllegal(wr_conditioning_key, 1)
       IN  IF a = 0
              THEN /\ wr_pc' = "constructed"
                   /\ UNCHANGED <<wr_error, wr_error_key>>
              ELSE /\ wr_pc' = "raised"
                   /\ wr_error' = RaiseValue(IllegalKeyMessage(wr_conditioning_key[a]))
                   /\ wr_error_key' = wr_conditioning_key[a]
    /\ UNCHANGED wr_conditioning_key

(***************************************************************************)
(* DDPM.register_schedule.                                                 *)
(*                                                                         *)
(* The arrays hold IEEE floating-point numbers; the model holds a number   *)
(* as a pair <<n, d>>: a rational n/d in lowest terms when d > 0, an       *)
(* infinity (of either sign) as <<1, 0>> and NaN as <<0, 0>>. numpy and    *)
(* torch divide by zero without raising. Rounding is left out: it changes  *)
(* neither which values are NaN nor which are infinite.                    *)
(***************************************************************************)
MaxBetas == 3           \* length of the beta sequence

NaN == <<0, 0>>
Inf == <<1, 0>>
Zero == <<0, 1>>
One == <<1, 1>>
Two == <<2, 1>>
Half == <<1, 2>>

Abs(a) == IF a < 0 THEN 0 - a ELSE a

RECURSIVE GCD(_, _)
GCD(a, b) == IF b = 0 THEN a ELSE GCD(b, a % b)

Norm(n, d) ==
    IF d = 0 THEN <<IF n = 0 THEN 0 ELSE 1, 0>>
    ELSE LET g == GCD(Abs(n), Abs(d))
             m == IF d < 0 THEN 0 - n ELSE n
         IN  <<(IF m < 0 THEN 0 - (Abs(m) \div g) ELSE m \div g), Abs(d) \div g>>

IsNaN(x) == x = NaN
IsFinite(x) == x[2] > 0

Mul(x, y) == Norm(x[1] * y[1], x[2] * y[2])
Div(x, y) == Mul(x, Norm(y[2], y[1]))
\* x + y and x - y for a finite y
Add(x, y) == IF x[2] = 0 THEN x ELSE Norm(x[1] * y[2] + y[1] * x[2], x[2] * y[2])
Sub(x, y) == Add(x, <<0 - y[1], y[2]>>)

\* np.sqrt(x) of a finite x, as far as the schedule's outcome depends on it:
\* NaN for a negative number, zero for zero, a positive number otherwise.
SqrtClass(x) == IF x[1] < 0 THEN "nan" ELSE IF x[1] = 0 THEN "zero" ELSE "pos"

\* The values the betas are drawn from: -1/4, 0, 1/4, 1/2, 1, 3/2.
BetaValues == {<<0 - 1, 4>>, Zero, <<1, 4>>, Half, One, <<3, 2>>}
VPosteriors == {Zero, Half, One}
ScheduleParameterizations == {"eps", "x0", "v"}

\* The buffers register_schedule registers before the LVLB weights.
ScheduleBuffers ==
    <<"betas", "alphas_cumprod", "alphas_cumprod_prev",
      "sqrt_alphas_cumprod", "sqrt_one_minus_alphas_cumprod",
      "log_one_minus_alphas_cumprod", "sqrt_recip_alphas_cumprod",
      "sqrt_recipm1_alphas_cumprod",
      "posterior_variance", "posterior_log_variance_clipped",
      "posterior_mean_coef1", "posterior_mean_coef2">>

\* np.cumprod(alphas)[t], t counted from 1
RECURSIVE CumProd(_, _)
CumProd(alphas, t) == IF t = 0 THEN One ELSE Mul(CumProd(alphas, t - 1), alphas[t])

\* posterior_variance[t]
PosteriorVariance(v, beta, ac_prev, ac) ==
    Add(Div(Mul(Mul(Sub(One, v), beta), Sub(One, ac_prev)), Sub(One, ac)),
        Mul(v, beta))

\* torch.isnan of the LVLB weight of one timestep, before lvlb_weights[0] is
\* overwritten
LvlbIsNaN(p, v, beta, alpha, ac_prev, ac) ==
    IF p = "eps"
       THEN IsNaN(Div(Mul(beta, beta),
                      Mul(Mul(Mul(Two, PosteriorVariance(v, beta, ac_prev, ac)),
                              alpha),
                          Sub(One, ac))))
    ELSE IF p = "x0"
       THEN \/ SqrtClass(ac) = "nan"
            \/ SqrtClass(ac) = "zero" /\ Sub(Two, ac) = Zero
    ELSE FALSE

ScheduleOff ==
    /\ sch_betas = <<>>
    /\ sch_parameterization = "eps"
    /\ sch_v_posterior = Zero
    /\ sch_pc = "off"
    /\ sch_error = "none"
    /\ sch_num_timesteps = NoneArg
    /\ sch_buffers = <<>>
    /\ sch_lvlb_isnan = <<>>

\* A register_schedule call that is about to run, with the betas it uses.
ScheduleInit ==
    /\ sch_betas \in UNION {[1..n -> BetaValues] : n \in 0..MaxBetas}
    /\ sch_parameterization \in ScheduleParameterizations
    /\ sch_v_posterior \in VPosteriors
    /\ sch_pc = "called"
    /\ sch_error = "none"
    /\ sch_num_timesteps = NoneArg
    /\ sch_buffers = <<>>
    /\ sch_lvlb_isnan = <<>>

\* DDPM.register_schedule(given_betas)
RegisterSchedule ==
    /\ sch_pc = "called"
    /\ UNCHANGED notScheduleVars
    /\ UNCHANGED <<sch_betas, sch_parameterization, sch_v_posterior>>
    /\ LET T == Len(sch_betas)
           alphas == [t \in 1..T |-> Sub(One, sch_betas[t])]
           alphas_cumprod == [t \in 1..T |-> CumProd(alphas, t)]
           alphas_cumprod_prev == [t \in 1..T |-> CumProd(alphas, t - 1)]
           lvlb == [t \in 1..T |->
                       LvlbIsNaN(sch_parameterization, sch_v_posterior,
                                 sch_betas[t], alphas[t],
                                 alphas_cumprod_prev[t], alphas_cumprod[t])]
           \* lvlb_weights[0] = lvlb_weights[1]
           lvlb_set == [t \in 1..T |-> IF t = 1 THEN lvlb[2] ELSE lvlb[t]]
       IN  /\ sch_num_timesteps' = T
           /\ IF T < MinT
                 THEN /\ sch_pc' = "raised"
                      /\ sch_error' = "IndexError"
                      /\ sch_buffers' = ScheduleBuffers
                      /\ sch_lvlb_isnan' = lvlb
                 ELSE /\ sch_buffers' = Append(ScheduleBuffers, "lvlb_weights")
                      /\ sch_lvlb_isnan' = lvlb_set
                      /\ IF \A t \in 1..T : lvlb_set[t]
                            THEN /\ sch_pc' = "raised"
                                 /\ sch_error' = "AssertionError"
                            ELSE /\ sch_pc' = "registered"
                                 /\ sch_error' = "none"

(***************************************************************************)
(* run_pkboo: the optimisation loop, its KeyboardInterrupt handler and its *)
(* finally clause, one action per statement.                               *)
(***************************************************************************)
MaxIter == 2            \* NUM_ITER
MaxBatchSize == 2       \* BATCH_SIZE

NUM_PREVIEWS == 10

\* The losses a step can report: one that is not above 1 and one that is.
LossValues == {1, 2}

\* np.zeros(n)
Zeros(n) == [a \in 1..n |-> 0]

\* a[:n] of a numpy array
Prefix(a, n) == SubSeq(a, 1, IF n < Len(a) THEN n ELSE Len(a))

Max(a, b) == IF a > b THEN a ELSE b

\* preview_interval = max(1, NUM_ITER // NUM_PREVIEWS)
PreviewInterval(n) == Max(1, n \div NUM_PREVIEWS)

\* The statements of the for loop, the loop header included.
LoopPcs == {"for", "alpha", "reset", "forward", "training_step", "optimise",
            "loss1", "trigger", "loss2", "preview"}

\* What save_final_results(composite_batch, fname, losses1, losses2, ...)
\* writes: its body runs in a try that catches Exception, and its first
\* statement subscripts composite_batch, which raises TypeError for None.
SaveFinalResults(batch, l1, l2) ==
    IF batch = "None"
       THEN [mel |-> FALSE, wav |-> FALSE, loss |-> FALSE, plot |-> <<<<>>, <<>>>>]
       ELSE [mel |-> TRUE, wav |-> TRUE, loss |-> TRUE, plot |-> <<l1, l2>>]

\* The parameters, by group: those of the latent diffusion model (its denoiser,
\* its first stage, its conditioning encoders) and the separator's mask.
LdmParams == {"denoiser", "first_stage", "cond_stage"}
MaskParams == {"alpha"}
ParamGroups == LdmParams \cup MaskParams

\* The gradients a backward pass can leave on a parameter, none of them zero.
GradValues == {0 - 1, 1}

\* for param in module.parameters(): param.requires_grad = flag
SetRequiresGrad_Skip(params, group, flag) == params

SetRequiresGrad(params, group, flag) ==
    [g \in DOMAIN params |->
        IF g \in group THEN [params[g] EXCEPT !.requires_grad = flag] ELSE params[g]]

\* params = list(pkboo.parameters()); torch.optim.SGD(params, lr=LEARNING_RATE):
\* the separator's parameters are those of its alpha module.
OptimizerParams == MaskParams

\* tensor.backward(): every parameter the tensor was computed from that has
\* requires_grad accumulates the gradient grads gives it.
Backward(params, graph, grads) ==
    [g \in DOMAIN params |->
        IF g \in graph /\ params[g].requires_grad
           THEN [params[g] EXCEPT !.grad = @ + grads[g]]
           ELSE params[g]]

\* optim.step() of SGD: p = p - lr * p.grad for the optimizer's parameters that
\* have a gradient, lr * grad held as grad.
OptimStep(params, optim) ==
    [g \in DOMAIN params |->
        IF g \in optim /\ params[g].grad # 0
           THEN [params[g] EXCEPT !.value = @ - params[g].grad]
           ELSE params[g]]

\* optim.zero_grad()
ZeroGrad(params, optim) ==
    [g \in DOMAIN params |->
        IF g \in optim THEN [params[g] EXCEPT !.grad = 0] ELSE params[g]]

\* The parameters training_step's x.backward(gradient=grad) reaches: x is the
\* first-stage encoding of the masked spectrogram (the denoiser runs under
\* torch.no_grad()); and those alpha.sum() is computed from.
TrainingStepGraph == {"first_stage", "alpha"}
RegularizationGraph == {"alpha"}

PkbooOff ==
    /\ NUM_ITER = 0
    /\ BATCH_SIZE = 1
    /\ pk_pc = "off"
    /\ iter_idx = NoneArg
    /\ composite_batch = "unbound"
    /\ noise_mse_loss = 0
    /\ alpha_reg_loss = 0
    /\ losses1 = <<>>
    /\ losses2 = <<>>
    /\ trigger = 0
    /\ whenstartdiverge = NoneArg
    /\ pk_previews = <<>>
    /\ pk_interrupt_at = "none"
    /\ pk_pending = "none"
    /\ pk_saved_mel = FALSE
    /\ pk_saved_wav = FALSE
    /\ pk_saved_loss = FALSE
    /\ pk_loss_plot = <<<<>>, <<>>>>
    /\ pk_saved_metadata = FALSE
    /\ pk_exit = "none"
    /\ pk_params = [g \in ParamGroups |->
                        [value |-> 0, requires_grad |-> FALSE, grad |-> 0]]
    /\ pk_optim = {}

\* run_pkboo about to enter its try statement.
PkbooInit ==
    /\ NUM_ITER \in 0..MaxIter
    /\ BATCH_SIZE \in 1..MaxBatchSize
    /\ pk_pc = "for"
    /\ iter_idx = NoneArg
    /\ composite_batch = "unbound"
    /\ noise_mse_loss = 0
    /\ alpha_reg_loss = 0
    /\ losses1 = Zeros(NUM_ITER)
    /\ losses2 = Zeros(NUM_ITER)
    /\ trigger = 0
    /\ whenstartdiverge = NoneArg
    /\ pk_previews = <<>>
    /\ pk_interrupt_at = "none"
    /\ pk_pending = "none"
    /\ pk_saved_mel = FALSE
    /\ pk_saved_wav = FALSE
    /\ pk_saved_loss = FALSE
    /\ pk_loss_plot = <<<<>>, <<>>>>
    /\ pk_saved_metadata = FALSE
    /\ pk_exit = "none"
    /\ \E flags \in [ParamGroups -> BOOLEAN] :
           pk_params =
               SetRequiresGrad(
                   SetRequiresGrad(
                       [g \in ParamGroups |->
                           [value |-> 0, requires_grad |-> flags[g], grad |-> 0]],
                       LdmParams, FALSE),
                   MaskParams, TRUE)
    /\ pk_optim = OptimizerParams

pkConfigVars == <<NUM_ITER, BATCH_SIZE, pk_optim>>
pkLocalVars == <<iter_idx, composite_batch, noise_mse_loss, alpha_reg_loss,
                 losses1, losses2, trigger, whenstartdiverge>>
pkSavedVars == <<pk_previews, pk_saved_mel, pk_saved_wav, pk_saved_loss,
                 pk_loss_plot, pk_saved_metadata>>
pkExitVars == <<pk_interrupt_at, pk_pending, pk_exit>>

\* for iter_idx in tqdm(range(NUM_ITER)):
PkbooFor ==
    /\ pk_pc = "for"
    /\ LET next == IF iter_idx = NoneArg THEN 0 ELSE iter_idx + 1
       IN  IF next < NUM_ITER
              THEN /\ iter_idx' = next
                   /\ pk_pc' = "alpha"
              ELSE /\ iter_idx' = iter_idx
                   /\ pk_pc' = "final_save"
    /\ UNCHANGED <<composite_batch, noise_mse_loss, alpha_reg_loss, losses1,
                   losses2, trigger, whenstartdiverge>>
    /\ UNCHANGED <<pkConfigVars, pkSavedVars, pkExitVars, notPkbooVars>>
    /\ UNCHANGED pk_params

\* alpha = pkboo.alpha()
PkbooAlpha ==
    /\ pk_pc = "alpha"
    /\ pk_pc' = "reset"
    /\ UNCHANGED <<pkConfigVars, pkLocalVars, pkSavedVars, pkExitVars, notPkbooVars>>
    /\ UNCHANGED pk_params

\* composite_batch = None; noise_mse_loss = 0
PkbooReset ==
    /\ pk_pc = "reset"
    /\ composite_batch' = "None"
    /\ noise_mse_loss' = 0
    /\ pk_pc' = "forward"
    /\ UNCHANGED <<iter_idx, alpha_reg_loss, losses1, losses2, trigger,
                   whenstartdiverge>>
    /\ UNCHANGED <<pkConfigVars, pkSavedVars, pkExitVars, notPkbooVars>>
    /\ UNCHANGED pk_params

\* if BATCH_SIZE == 1: composite_batch = pkboo()  else: raise ValueError
PkbooForward ==
    /\ pk_pc = "forward"
    /\ IF BATCH_SIZE = 1
          THEN /\ composite_batch' = "batch"
               /\ pk_pc' = "training_step"
               /\ UNCHANGED pk_pending
          ELSE /\ composite_batch' = composite_batch
               /\ pk_pc' = "finally"
               /\ pk_pending' = "ValueError"
    /\ UNCHANGED <<iter_idx, noise_mse_loss, alpha_reg_loss, losses1, losses2,
                   trigger, whenstartdiverge>>
    /\ UNCHANGED <<pkConfigVars, pkSavedVars, pk_interrupt_at, pk_exit, notPkbooVars>>
    /\ UNCHANGED pk_params

\* noise_mse_loss = training_step(composite_batch, latent_diffusion, ...)
PkbooTrainingStep ==
    /\ pk_pc = "training_step"
    /\ \E loss \in LossValues : noise_mse_loss' = loss
    /\ \E grads \in [ParamGroups -> GradValues] :
           pk_params' = Backward(pk_params, TrainingStepGraph, grads)
    /\ pk_pc' = "optimise"
    /\ UNCHANGED <<iter_idx, composite_batch, alpha_reg_loss, losses1, losses2,
                   trigger, whenstartdiverge>>
    /\ UNCHANGED <<pkConfigVars, pkSavedVars, pkExitVars, notPkbooVars>>

\* alpha_regularization_loss = alpha.sum(); backward; optim.step();
\* optim.zero_grad(); alpha_reg_loss = alpha_regularization_loss.item()
PkbooOptimise ==
    /\ pk_pc = "optimise"
    /\ \E loss \in LossValues : alpha_reg_loss' = loss
    /\ \E grads \in [ParamGroups -> GradValues] :
           pk_params' =
               ZeroGrad(OptimStep(Backward(pk_params, RegularizationGraph, grads),
                                  pk_optim),
                        pk_optim)
    /\ pk_pc' = "loss1"
    /\ UNCHANGED <<iter_idx, composite_batch, noise_mse_loss, losses1, losses2,
                   trigger, whenstartdiverge>>
    /\ UNCHANGED <<pkConfigVars, pkSavedVars, pkExitVars, notPkbooVars>>

\* losses1[iter_idx] = noise_mse_loss
PkbooLoss1 ==
    /\ pk_pc = "loss1"
    /\ losses1' = [losses1 EXCEPT ![iter_idx + 1] = noise_mse_loss]
    /\ pk_pc' = "trigger"
    /\ UNCHANGED <<iter_idx, composite_batch, noise_mse_loss, alpha_reg_loss,
                   losses2, trigger, whenstartdiverge>>
    /\ UNCHANGED <<pkConfigVars, pkSavedVars, pkExitVars, notPkbooVars>>
    /\ UNCHANGED pk_params

\* if noise_mse_loss > 1 and trigger == 0: whenstartdiverge = iter_idx; trigger = 1
PkbooTrigger ==
    /\ pk_pc = "trigger"
    /\ IF noise_mse_loss > 1 /\ trigger = 0
          THEN /\ whenstartdiverge' = iter_idx
               /\ trigger' = 1
          ELSE UNCHANGED <<whenstartdiverge, trigger>>
    /\ pk_pc' = "loss2"
    /\ UNCHANGED <<iter_idx, composite_batch, noise_mse_loss, alpha_reg_loss,
                   losses1, losses2>>
    /\ UNCHANGED <<pkConfigVars, pkSavedVars, pkExitVars, notPkbooVars>>
    /\ UNCHANGED pk_params

\* losses2[iter_idx] = alpha_reg_loss
PkbooLoss2 ==
    /\ pk_pc = "loss2"
    /\ losses2' = [losses2 EXCEPT ![iter_idx + 1] = alpha_reg_loss]
    /\ pk_pc' = "preview"
    /\ UNCHANGED <<iter_idx, composite_batch, noise_mse_loss, alpha_reg_loss,
                   losses1, trigger, whenstartdiverge>>
    /\ UNCHANGED <<pkConfigVars, pkSavedVars, pkExitVars, notPkbooVars>>
    /\ UNCHANGED pk_params

\* if not iter_idx % preview_interval: save_intermediate_results(...)
PkbooPreview ==
    /\ pk_pc = "preview"
    /\ pk_previews' = IF iter_idx % PreviewInterval(NUM_ITER) = 0
                         THEN Append(pk_previews, iter_idx)
                         ELSE pk_previews
    /\ pk_pc' = "for"
    /\ UNCHANGED <<pk_saved_mel, pk_saved_wav, pk_saved_loss, pk_loss_plot,
                   pk_saved_metadata>>
    /\ UNCHANGED <<pkConfigVars, pkLocalVars, pkExitVars, notPkbooVars>>
    /\ UNCHANGED pk_params

\* A local that is read while unbound raises UnboundLocalError.
ReadLocal(value, unbound) ==
    IF value = unbound THEN "UnboundLocalError" ELSE "none"

\* save_final_results(composite_batch, fname, losses1, losses2, ...) after the loop
PkbooFinalSave ==
    /\ pk_pc = "final_save"
    /\ IF ReadLocal(composite_batch, "unbound") # "none"
          THEN /\ pk_pending' = ReadLocal(composite_batch, "unbound")
               /\ pk_pc' = "finally"
               /\ UNCHANGED <<pk_saved_mel, pk_saved_wav, pk_saved_loss, pk_loss_plot>>
          ELSE LET saved == SaveFinalResults(composite_batch, losses1, losses2)
               IN  /\ pk_saved_mel' = saved.mel
                   /\ pk_saved_wav' = saved.wav
                   /\ pk_saved_loss' = saved.loss
                   /\ pk_loss_plot' = saved.plot
                   /\ pk_pc' = "print"
                   /\ UNCHANGED pk_pending
    /\ UNCHANGED <<pk_previews, pk_saved_metadata, pk_interrupt_at, pk_exit>>
    /\ UNCHANGED <<pkConfigVars, pkLocalVars, notPkbooVars>>
    /\ UNCHANGED pk_params

\* print(whenstartdiverge)
PkbooPrint ==
    /\ pk_pc = "print"
    /\ pk_pending' = ReadLocal(whenstartdiverge, NoneArg)
    /\ pk_pc' = "finally"
    /\ UNCHANGED <<pk_interrupt_at, pk_exit>>
    /\ UNCHANGED <<pkConfigVars, pkLocalVars, pkSavedVars, notPkbooVars>>
    /\ UNCHANGED pk_params

\* A KeyboardInterrupt arrives while the statement at pk_pc of the loop runs,
\* before that statement has assigned anything.
PkbooInterrupt ==
    /\ pk_pc \in LoopPcs
    /\ pk_interrupt_at' = pk_pc
    /\ pk_pc' = "handler"
    /\ UNCHANGED <<pk_pending, pk_exit>>
    /\ UNCHANGED <<pkConfigVars, pkLocalVars, pkSavedVars, notPkbooVars>>
    /\ UNCHANGED pk_params

\* except KeyboardInterrupt:
\*     save_final_results(composite_batch, fname, losses1[:iter_idx],
\*                        losses2[:iter_idx], latent_diffusion)
PkbooHandler ==
    /\ pk_pc = "handler"
    /\ IF ReadLocal(composite_batch, "unbound") # "none"
          THEN /\ pk_pending' = ReadLocal(composite_batch, "unbound")
               /\ UNCHANGED <<pk_saved_mel, pk_saved_wav, pk_saved_loss, pk_loss_plot>>
          ELSE LET saved == SaveFinalResults(composite_batch,
                                             Prefix(losses1, iter_idx),
                                             Prefix(losses2, iter_idx))
               IN  /\ pk_saved_mel' = saved.mel
                   /\ pk_saved_wav' = saved.wav
                   /\ pk_saved_loss' = saved.loss
                   /\ pk_loss_plot' = saved.plot
                   /\ UNCHANGED pk_pending
    /\ pk_pc' = "finally"
    /\ UNCHANGED <<pk_previews, pk_saved_metadata, pk_interrupt_at, pk_exit>>
    /\ UNCHANGED <<pkConfigVars, pkLocalVars, notPkbooVars>>
    /\ UNCHANGED pk_params

\* finally: save_audio_metadata(...); then the pending exception, if any,
\* propagates out of run_pkboo
PkbooFinally ==
    /\ pk_pc = "finally"
    /\ pk_saved_metadata' = TRUE
    /\ pk_exit' = IF pk_pending = "none" THEN "returned" ELSE pk_pending
    /\ pk_pc' = "exited"
    /\ UNCHANGED <<pk_previews, pk_saved_mel, pk_saved_wav, pk_saved_loss,
                   pk_loss_plot, pk_interrupt_at, pk_pending>>
    /\ UNCHANGED <<pkConfigVars, pkLocalVars, notPkbooVars>>
    /\ UNCHANGED pk_params

(***************************************************************************)
(* masking_torch_image.                                                    *)
(*                                                                         *)
(* A tensor is a sequence of floating-point numbers. A binary floating-    *)
(* point number is an integer multiple of the format's smallest number     *)
(* whose magnitude needs at most FloatBits significant bits; the model     *)
(* holds a float as that integer, 1.0 being FloatOne, and rounds the exact *)
(* result of each operation to the nearest float, ties to even, as IEEE    *)
(* arithmetic does. float32 has 24 significant bits; the model's format    *)
(* has FloatBits.                                                          *)
(***************************************************************************)
FloatBits == 3          \* significant bits of the floating-point format
MaxElems == 2           \* elements of a tensor

\* 1.0 in units of the smallest float: 2^(FloatBits - 1).
RECURSIVE Pow2(_)
Pow2(k) == IF k = 0 THEN 1 ELSE 2 * Pow2(k - 1)

FloatOne == Pow2(FloatBits - 1)

\* The spacing of the floats around the exact value a / d, a >= 0.
RECURSIVE Quantum(_, _, _)
Quantum(a, d, q) ==
    IF a < Pow2(FloatBits) * d * q THEN q ELSE Quantum(a, d, 2 * q)

\* The exact value n / d rounded to the nearest float, ties to even.
RoundFloat(n, d) ==
    LET a == IF n < 0 THEN 0 - n ELSE n
        q == Quantum(a, d, 1)
        m == a \div (d * q)
        rem == a % (d * q)
        up == \/ 2 * rem > d * q
              \/ 2 * rem = d * q /\ m % 2 = 1
        r == (IF up THEN m + 1 ELSE m) * q
    IN  IF n < 0 THEN 0 - r ELSE r

FloatSub(x, y) == RoundFloat(x - y, 1)
FloatAdd(x, y) == RoundFloat(x + y, 1)
FloatMul(x, y) == RoundFloat(x * y, FloatOne)

\* tensor.min() and tensor.max() of a tensor with at least one element
TensorMin(t) == CHOOSE x \in {t[a] : a \in 1..Len(t)} : \A b \in 1..Len(t) : x <= t[b]
TensorMax(t) == CHOOSE x \in {t[a] : a \in 1..Len(t)} : \A b \in 1..Len(t) : x >= t[b]

\* The floats the tensors' elements are drawn from. With FloatOne = 4:
\* foreground -4.0, -1.0, 0.0, 0.25, 1.25, 2.0; alpha -0.25, 0, 0.5, 1, 1.25.
ForegroundValues ==
    {0 - 4 * FloatOne, 0 - FloatOne, 0, 1, FloatOne + 1, 2 * FloatOne}
AlphaValues == {0 - 1, 0, FloatOne \div 2, FloatOne, FloatOne + 1}

Tensors(values) == UNION {[1..n -> values] : n \in 1..MaxElems}

MaskOff ==
    /\ mk_foreground = <<>>
    /\ mk_alpha = <<>>
    /\ mk_pc = "off"
    /\ mk_error = "none"
    /\ mk_blended = <<>>

\* A masking_torch_image(foreground, alpha) call that is about to run.
MaskInit ==
    /\ mk_foreground \in Tensors(ForegroundValues)
    /\ mk_alpha \in Tensors(AlphaValues)
    /\ mk_pc = "called"
    /\ mk_error = "none"
    /\ mk_blended = <<>>

\* blended = (foreground - min_val) * alpha + min_val
Blend(foreground, alpha) ==
    LET min_val == TensorMin(foreground)
    IN  [a \in 1..Len(foreground) |->
            FloatAdd(FloatMul(FloatSub(foreground[a], min_val), alpha[a]), min_val)]

\* masking_torch_image(foreground, alpha)
MaskingTorchImage ==
    /\ mk_pc = "called"
    /\ UNCHANGED notMaskVars
    /\ UNCHANGED <<mk_foreground, mk_alpha>>
    /\ IF Len(mk_foreground) # Len(mk_alpha)
          THEN /\ mk_pc' = "raised"
               /\ mk_error' = "AssertionError"
               /\ UNCHANGED mk_blended
       ELSE IF ~(TensorMin(mk_alpha) >= 0 /\ TensorMax(mk_alpha) <= FloatOne)
          THEN /\ mk_pc' = "raised"
               /\ mk_error' = "AssertionError"
               /\ UNCHANGED mk_blended
       ELSE /\ mk_pc' = "returned"
            /\ mk_blended' = Blend(mk_foreground, mk_alpha)
            /\ UNCHANGED mk_error

(***************************************************************************)
(* The latent scale factor: LatentDiffusion.__init__ sets it,              *)
(* on_train_batch_start may calibrate it. The trainer calls the hook at    *)
(* the start of every training batch and advances current_epoch,           *)
(* global_step and batch_idx.                                              *)
(***************************************************************************)
MaxEpochs == 2              \* epochs of a training run
MaxTrainBatches == 2        \* batches per epoch
MaxAccumulate == 2          \* accumulate_grad_batches

\* The scale_factor arguments and the standard deviations of a batch's latents.
ScaleFactorArgs == {One, Two}
StdValues == {Zero, Half, One, Two}

ScaleOff ==
    /\ scale_by_std = FALSE
    /\ arg_scale_factor = One
    /\ scale_factor = One
    /\ restarted_from_ckpt = FALSE
    /\ accumulate_grad_batches = 1
    /\ num_training_batches = 1
    /\ current_epoch = 0
    /\ global_step = 0
    /\ tb_batch_idx = 0
    /\ tb_pc = "off"
    /\ tb_z_std = One
    /\ sf_log = <<>>

\* LatentDiffusion.__init__ has run and a training run is about to start.
ScaleInit ==
    /\ scale_by_std \in BOOLEAN
    /\ arg_scale_factor \in ScaleFactorArgs
    /\ scale_factor = arg_scale_factor
    /\ restarted_from_ckpt \in BOOLEAN
    /\ accumulate_grad_batches \in 1..MaxAccumulate
    /\ num_training_batches \in 1..MaxTrainBatches
    /\ current_epoch = 0
    /\ global_step = 0
    /\ tb_batch_idx = 0
    /\ tb_pc = "start"
    /\ tb_z_std = One
    /\ sf_log = <<>>

scaleConfigVars == <<scale_by_std, arg_scale_factor, restarted_from_ckpt,
                     accumulate_grad_batches, num_training_batches>>

\* The condition of on_train_batch_start's if statement.
VeryFirstBatch_AnyBatchIndex(sf, by_std, epoch, step, idx, restarted) ==
    /\ by_std
    /\ epoch = 0
    /\ step = 0
    /\ ~restarted

VeryFirstBatch(sf, by_std, epoch, step, idx, restarted) ==
    /\ sf = One
    /\ by_std
    /\ epoch = 0
    /\ step = 0
    /\ idx = 0
    /\ ~restarted

\* on_train_batch_start(batch, batch_idx)
OnTrainBatchStart ==
    /\ tb_pc = "start"
    /\ tb_pc' = "body"
    /\ IF VeryFirstBatch(scale_factor, scale_by_std, current_epoch, global_step,
                         tb_batch_idx, restarted_from_ckpt)
          THEN \E std \in StdValues :
                   /\ tb_z_std' = std
                   /\ scale_factor' = Div(One, std)
                   /\ sf_log' = Append(sf_log, Div(One, std))
          ELSE UNCHANGED <<tb_z_std, scale_factor, sf_log>>
    /\ UNCHANGED <<scaleConfigVars, current_epoch, global_step, tb_batch_idx>>
    /\ UNCHANGED notScaleVars

\* The trainer runs the batch: an optimizer step, and with it global_step + 1,
\* after every accumulate_grad_batches batches and after the last batch of an
\* epoch; then the next batch, or the next epoch.
TrainerBatchEnd ==
    /\ tb_pc = "body"
    /\ LET last == tb_batch_idx + 1 = num_training_batches
           steps == last \/ (tb_batch_idx + 1) % accumulate_grad_batches = 0
       IN  /\ global_step' = IF steps THEN global_step + 1 ELSE global_step
           /\ tb_batch_idx' = IF last THEN 0 ELSE tb_batch_idx + 1
           /\ current_epoch' = IF last THEN current_epoch + 1 ELSE current_epoch
           /\ tb_pc' = IF last /\ current_epoch + 1 = MaxEpochs
                          THEN "done" ELSE "start"
    /\ UNCHANGED <<scaleConfigVars, scale_factor, tb_z_std, sf_log>>
    /\ UNCHANGED notScaleVars

(***************************************************************************)
(* LatentDiffusion.generate_sample: the loop over the batches, the         *)
(* best-of-N selection and save_waveform.                                  *)
(*                                                                         *)
(* The inputs of a batch are numbered 0..B-1, as are its filenames; a      *)
(* candidate waveform is its row 0..B*N-1 in the generated batch.          *)
(***************************************************************************)
MaxGenBatches == 2      \* batches the iterable yields
MaxGenBatchSize == 2    \* inputs per batch
MaxNGen == 2            \* n_gen
MaxScore == 1           \* similarity scores are drawn from 0..MaxScore

\* torch.cat([c] * n, dim=0) and `text * n`: n copies of the rows of c in a row.
RECURSIVE RepeatRows(_, _)
RepeatRows(c, n) == IF n = 0 THEN <<>> ELSE c \o RepeatRows(c, n - 1)

\* similarity[i :: step], of a sequence whose rows are counted from 0
Strided(s, i, step) ==
    [k \in 1..((Len(s) - i + step - 1) \div step) |-> s[i + (k - 1) * step + 1]]

\* torch.argmax(candidates).item(): the first index of a maximal value, from 0.
ArgMax_OfMin(c) ==
    (CHOOSE k \in 1..Len(c) :
        /\ \A m \in 1..Len(c) : c[m] >= c[k]
        /\ \A m \in 1..(k - 1) : c[m] > c[k]) - 1

ArgMax(c) ==
    (CHOOSE k \in 1..Len(c) :
        /\ \A m \in 1..Len(c) : c[m] <= c[k]
        /\ \A m \in 1..(k - 1) : c[m] < c[k]) - 1

\* best_index: for each input i, i + max_index * z.shape[0]
BestIndex(similarity, B) ==
    [a \in 1..B |-> (a - 1) + ArgMax(Strided(similarity, a - 1, B)) * B]

\* save_waveform(waveform, savepath, name) with a list of names: row i is
\* written under name[i]; a row past the end of the list raises IndexError
\* after the rows before it are written.
SaveWaveform(rows, names) ==
    [files |-> [a \in 1..(IF Len(rows) < names THEN Len(rows) ELSE names) |->
                    [name |-> a - 1, candidate |-> rows[a]]],
     error |-> IF Len(rows) > names THEN "IndexError" ELSE "none"]

GenOff ==
    /\ gs_num_batches = 0
    /\ gs_batch_size = 1
    /\ n_gen = 1
    /\ gs_pc = "off"
    /\ gs_i = 0
    /\ gs_similarity = <<>>
    /\ gs_clap_failed = FALSE
    /\ gs_clap_failures = 0
    /\ gs_waveform = <<>>
    /\ gs_saved = <<>>
    /\ gs_batches_saved = 0
    /\ gs_error = "none"

\* generate_sample(batchs, n_gen=...) has entered its loop over the batches.
GenInit ==
    /\ gs_num_batches \in 1..MaxGenBatches
    /\ gs_batch_size \in 1..MaxGenBatchSize
    /\ n_gen \in 1..MaxNGen
    /\ gs_pc = "loop"
    /\ gs_i = 0
    /\ gs_similarity = <<>>
    /\ gs_clap_failed = FALSE
    /\ gs_clap_failures = 0
    /\ gs_waveform = <<>>
    /\ gs_saved = <<>>
    /\ gs_batches_saved = 0
    /\ gs_error = "none"

genConfigVars == <<gs_num_batches, gs_batch_size, n_gen>>

\* The loop takes the next batch and generates its candidates: get_input, the
\* conditioning repeated n_gen times, sample_log, decode_first_stage and
\* mel_spectrogram_to_waveform give B * n_gen waveforms.
GenerateCandidates ==
    /\ gs_pc = "loop"
    /\ gs_i < gs_num_batches
    /\ gs_waveform' = [k \in 1..(gs_batch_size * n_gen) |-> k - 1]
    /\ gs_similarity' = <<>>
    /\ gs_clap_failed' = FALSE
    /\ gs_saved' = <<>>
    /\ gs_pc' = "generated"
    /\ UNCHANGED <<genConfigVars, gs_i, gs_clap_failures, gs_batches_saved, gs_error>>
    /\ UNCHANGED notGenVars

\* if n_gen > 1: try: ... waveform = waveform[best_index]
\*               except Exception: print a warning
SelectBest ==
    /\ gs_pc = "generated"
    /\ IF n_gen > 1
          THEN \E similarity \in [1..(gs_batch_size * n_gen) -> 0..MaxScore],
                  raises \in BOOLEAN :
                  /\ gs_similarity' = similarity
                  /\ gs_clap_failed' = raises
                  /\ gs_clap_failures' =
                         IF raises THEN gs_clap_failures + 1 ELSE gs_clap_failures
                  /\ gs_waveform' =
                         IF raises THEN gs_waveform
                         ELSE BestIndex(similarity, gs_batch_size)
          ELSE UNCHANGED <<gs_similarity, gs_clap_failed, gs_clap_failures,
                           gs_waveform>>
    /\ gs_pc' = "selected"
    /\ UNCHANGED <<genConfigVars, gs_i, gs_saved, gs_batches_saved, gs_error>>
    /\ UNCHANGED notGenVars

\* self.save_waveform(waveform, waveform_save_path, name=fnames), and the end of
\* the iteration
SaveBatch ==
    /\ gs_pc = "selected"
    /\ LET saved == SaveWaveform(gs_waveform, gs_batch_size)
       IN  /\ gs_saved' = saved.files
           /\ gs_error' = saved.error
           /\ IF saved.error = "none"
                 THEN /\ gs_pc' = "loop"
                      /\ gs_i' = gs_i + 1
                      /\ gs_batches_saved' = gs_batches_saved + 1
                 ELSE /\ gs_pc' = "raised"
                      /\ UNCHANGED <<gs_i, gs_batches_saved>>
    /\ UNCHANGED <<genConfigVars, gs_similarity, gs_clap_failed, gs_clap_failures,
                   gs_waveform>>
    /\ UNCHANGED notGenVars

\* The iterable is exhausted: return waveform_save_path
GenerateSampleReturn ==
    /\ gs_pc = "loop"
    /\ gs_i = gs_num_batches
    /\ gs_pc' = "returned"
    /\ UNCHANGED <<genConfigVars, gs_i, gs_similarity, gs_clap_failed,
                   gs_clap_failures, gs_waveform, gs_saved, gs_batches_saved,
                   gs_error>>
    /\ UNCHANGED notGenVars

(***************************************************************************)
(* LatentDiffusion.sample_log: the choice between the DDIM sampler, the    *)
(* PLMS sampler and the ancestral loop of LatentDiffusion.sample, with the *)
(* keyword arguments each call hands on.                                   *)
(***************************************************************************)
\* Extra keyword arguments a caller of sample_log may give; each is a
\* parameter of p_sample_loop and of the two sampler classes.
CallerKwargs == {"x_T", "log_every_t", "timesteps"}

\* The named parameters of LatentDiffusion.sample (its **kwargs takes the rest)
SampleParams ==
    {"cond", "batch_size", "return_intermediates", "x_T", "verbose",
     "timesteps", "quantize_denoised", "mask", "x0", "shape"}

\* The parameters of LatentDiffusion.p_sample_loop, which has no **kwargs
PSampleLoopParams ==
    {"cond", "shape", "return_intermediates", "x_T", "verbose", "callback",
     "timesteps", "quantize_denoised", "mask", "x0", "img_callback",
     "start_T", "log_every_t"}

\* The keywords of the call self.sample(...) in the last branch of sample_log
SampleCallKeywords(kwargs) ==
    {"cond", "batch_size", "return_intermediates",
     "unconditional_guidance_scale", "mask", "unconditional_conditioning"}
        \cup kwargs

\* The keywords sample collects in its **kwargs and hands to p_sample_loop
SampleForwarded(keywords) == keywords \ SampleParams

\* The keywords of a call of p_sample_loop that it has no parameter for
Unexpected(keywords) == keywords \ PSampleLoopParams

SlogOff ==
    /\ sl_ddim = FALSE
    /\ sl_use_plms = FALSE
    /\ sl_mask = FALSE
    /\ sl_kwargs = {}
    /\ sl_pc = "off"
    /\ sl_sampler = "none"
    /\ sl_samples = "none"
    /\ sl_intermediates = "none"
    /\ sl_result = <<>>
    /\ sl_error = "none"

\* sample_log(cond, batch_size, ddim, ddim_steps, ...) has been called.
SlogInit ==
    /\ sl_ddim \in BOOLEAN
    /\ sl_use_plms \in BOOLEAN
    /\ sl_mask \in BOOLEAN
    /\ sl_kwargs \in SUBSET CallerKwargs
    /\ sl_pc = "called"
    /\ sl_sampler = "none"
    /\ sl_samples = "none"
    /\ sl_intermediates = "none"
    /\ sl_result = <<>>
    /\ sl_error = "none"

slogArgVars == <<sl_ddim, sl_use_plms, sl_mask, sl_kwargs>>

\* if ddim and not use_plms: ... elif use_plms: ... else: ...
SampleLog ==
    /\ sl_pc = "called"
    /\ sl_sampler' = IF sl_ddim /\ ~sl_use_plms THEN "ddim"
                     ELSE IF sl_use_plms THEN "plms"
                     ELSE "ddpm"
    /\ sl_pc' = "selected"
    /\ UNCHANGED <<slogArgVars, sl_samples, sl_intermediates, sl_result, sl_error>>
    /\ UNCHANGED notSlogVars

\* samples, intermediates = ddim_sampler.sample(...): the sampler class is
\* not in src/; it takes the keywords it is given and returns its samples.
DDIMSamplerSample ==
    /\ sl_pc = "selected"
    /\ sl_sampler = "ddim"
    /\ sl_samples' = "ddim"
    /\ sl_intermediates' = "ddim"
    /\ sl_pc' = "sampled"
    /\ UNCHANGED <<slogArgVars, sl_sampler, sl_result, sl_error>>
    /\ UNCHANGED notSlogVars

\* samples, intermediates = plms_sampler.sample(...): as for DDIM.
PLMSSamplerSample ==
    /\ sl_pc = "selected"
    /\ sl_sampler = "plms"
    /\ sl_samples' = "plms"
    /\ sl_intermediates' = "plms"
    /\ sl_pc' = "sampled"
    /\ UNCHANGED <<slogArgVars, sl_sampler, sl_result, sl_error>>
    /\ UNCHANGED notSlogVars

\* samples, intermediates = self.sample(cond=..., **kwargs): sample hands
\* the keywords it has no parameter for to p_sample_loop, whose call raises
\* TypeError when it has no parameter for one of them either.
SampleLogSample ==
    /\ sl_pc = "selected"
    /\ sl_sampler = "ddpm"
    /\ LET forwarded == SampleForwarded(SampleCallKeywords(sl_kwargs))
       IN  IF Unexpected(forwarded) # {}
              THEN /\ sl_error' = "TypeError"
                   /\ sl_pc' = "raised"
                   /\ sl_samples' = sl_samples
                   /\ sl_intermediates' = sl_intermediates
              ELSE /\ sl_error' = sl_error
                   /\ sl_pc' = "sampled"
                   /\ sl_samples' = "ddpm"
                   /\ sl_intermediates' = "ddpm"
    /\ UNCHANGED <<slogArgVars, sl_sampler, sl_result>>
    /\ UNCHANGED notSlogVars

\* return samples, intermediate: `intermediate` is the None assigned before
\* the branches.
SampleLogReturn ==
    /\ sl_pc = "sampled"
    /\ sl_result' = <<sl_samples, "None">>
    /\ sl_pc' = "returned"
    /\ UNCHANGED <<slogArgVars, sl_sampler, sl_samples, sl_intermediates, sl_error>>
    /\ UNCHANGED notSlogVars

(***************************************************************************)
(* LatentDiffusion.get_learned_conditioning, on the value of its input.    *)
(*                                                                         *)
(* An input is a tensor with a number of rows, a list with a length, a     *)
(* value of another type (a string), or a dict of such values in the       *)
(* order of its keys.                                                      *)
(***************************************************************************)
MaxRows == 2        \* rows of a tensor, length of a list
MaxDictLen == 2     \* entries of a dict input

PlainInputs ==
    {[type |-> "Tensor", size |-> n] : n \in 1..MaxRows}
        \cup {[type |-> "list", size |-> n] : n \in 0..MaxRows}
        \cup {[type |-> "str", size |-> 0]}

DictInputs ==
    {[type |-> "dict", values |-> vs] :
        vs \in UNION {[1..n -> PlainInputs] : n \in 0..MaxDictLen}}

\* c[next(iter(c))]: the value under the first key of a dict
FirstElement_Last(c) == c.values[Len(c.values)]

FirstElement(c) == c.values[1]

\* The outcome of get_learned_conditioning(c, key, unconditional_cfg) with
\* the encoders registered under `registry`: calls made, value returned,
\* exception raised.
LearnedConditioning(registry, c, key, uncond) ==
    LET raise(e) == [calls |-> <<>>, return |-> <<>>, error |-> e]
        call(method, arg) ==
            LET made == [model |-> key, method |-> method, arg |-> arg]
            IN  [calls |-> <<made>>, return |-> made, error |-> "none"]
    IN  IF key \notin registry THEN raise("KeyError")
        ELSE IF ~uncond THEN call("forward", c)
        ELSE IF c.type = "dict" /\ Len(c.values) = 0 THEN raise("StopIteration")
        ELSE LET c1 == IF c.type = "dict" THEN FirstElement(c) ELSE c
             IN  IF c1.type \in {"Tensor", "list"}
                    THEN call("get_unconditional_condition", c1.size)
                    ELSE raise("NotImplementedError")

GlcOff ==
    /\ glc_registry = {}
    /\ glc_c = <<>>
    /\ glc_key = "none"
    /\ glc_unconditional_cfg = FALSE
    /\ glc_pc = "off"
    /\ glc_calls = <<>>
    /\ glc_return = <<>>
    /\ glc_error = "none"

\* get_learned_conditioning(c, key, unconditional_cfg) has been called.
GlcInit ==
    /\ glc_registry \in SUBSET RegisteredNames
    /\ glc_c \in PlainInputs \cup DictInputs
    /\ glc_key \in BundleKeys
    /\ glc_unconditional_cfg \in BOOLEAN
    /\ glc_pc = "called"
    /\ glc_calls = <<>>
    /\ glc_return = <<>>
    /\ glc_error = "none"

GetLearnedConditioningCall ==
    /\ glc_pc = "called"
    /\ LET res == LearnedConditioning(glc_registry, glc_c, glc_key,
                                      glc_unconditional_cfg)
       IN  /\ glc_calls' = res.calls
           /\ glc_return' = res.return
           /\ glc_error' = res.error
           /\ glc_pc' = IF res.error = "none" THEN "returned" ELSE "raised"
    /\ UNCHANGED <<glc_registry, glc_c, glc_key, glc_unconditional_cfg>>
    /\ UNCHANGED notGlcVars

(***************************************************************************)
(* DiffusionWrapper.forward: the dispatch of the entries of cond_dict on   *)
(* the substrings of their keys, and the call of the denoiser.             *)
(*                                                                         *)
(* A value is a tensor or a tuple with a length, or a dict given by its    *)
(* keys in order, each holding a (context, mask) pair. The pair of entry e *)
(* is <<e, 0>>, the pair under the j-th key of a dict at entry e <<e, j>>. *)
(***************************************************************************)
MaxBundle == 2      \* entries of cond_dict

ForwardKeys ==
    {"concat_mix", "film_clap_cond1", "crossattn_flan_t5",
     "crossattn_audiomae_pooled", "noncond_loss_clap2audiomae", "hybrid"}

\* The keys of a nested dict: no key, the two cross-attention keys in either
\* order, and a cross-attention key with a key of another mode around it.
NestedDicts ==
    {<<>>,
     <<"crossattn_flan_t5">>,
     <<"crossattn_audiomae_pooled">>,
     <<"crossattn_flan_t5", "crossattn_audiomae_pooled">>,
     <<"crossattn_audiomae_pooled", "crossattn_flan_t5">>,
     <<"film_clap_cond1">>,
     <<"crossattn_flan_t5", "film_clap_cond1">>,
     <<"film_clap_cond1", "crossattn_flan_t5">>}

Distinct(s) == \A a, b \in 1..Len(s) : a # b => s[a] # s[b]

ForwardValues ==
    {[kind |-> "tensor", len |-> 2], [kind |-> "tuple", len |-> 2],
     [kind |-> "tuple", len |-> 3]}
    \cup {[kind |-> "dict", keys |-> ks] : ks \in NestedDicts}

\* The keys of a cond_dict, in their order
KeySeqs ==
    {ks \in UNION {[1..n -> ForwardKeys] : n \in 0..MaxBundle} : Distinct(ks)}

\* The cond_dicts with the keys ks
Bundles(ks) ==
    {[e \in 1..Len(ks) |-> [key |-> ks[e], value |-> vs[e]]] :
        vs \in [1..Len(ks) -> ForwardValues]}

Has(key, sub) == Contains(KeyText(key), sub)

ConcatText == <<"c", "o", "n", "c", "a", "t">>
FilmText == <<"f", "i", "l", "m">>
CrossattnText == <<"c", "r", "o", "s", "s", "a", "t", "t", "n">>
NoncondText == <<"n", "o", "n", "c", "o", "n", "d">>

\* The branch of the if/elif chain of the loop a key takes.
Branch_AsInit(key) ==
    IF Has(key, ConcatText) THEN "concat"
    ELSE IF Has(key, FilmText) THEN "film"
    ELSE IF Has(key, CrossattnText) THEN "crossattn"
    ELSE IF Has(key, NoncondText) \/ KeyIsLegal(key) THEN "noncond"
    ELSE "else"

Branch(key) ==
    IF Has(key, ConcatText) THEN "concat"
    ELSE IF Has(key, FilmText) THEN "film"
    ELSE IF Has(key, CrossattnText) THEN "crossattn"
    ELSE IF Has(key, NoncondText) THEN "noncond"
    ELSE "else"

Unbound == <<>>

\* The inner loop over a nested dict at entry e, from its j-th key on: the
\* pair last bound to (context, attn_mask).
RECURSIVE NestedLoop(_, _, _, _)
NestedLoop(e, ks, j, bound) ==
    IF j > Len(ks) THEN bound
    ELSE NestedLoop(e, ks, j + 1,
                    IF Has(ks[j], CrossattnText) THEN <<e, j>> ELSE bound)

\* The loop over conditional_keys from entry e on. s holds the locals xc, y,
\* the pair bound to (context, attn_mask), the two lists, the branches taken,
\* and the exception with the entry it was raised at.
RECURSIVE ForwardLoop(_, _, _)
ForwardLoop(d, e, s) ==
    IF e > Len(d) \/ s.error # "none" THEN s
    ELSE LET key == d[e].key
             v == d[e].value
             b == Branch(key)
             raise(err) == [s EXCEPT !.error = err, !.at = e]
             took == [s EXCEPT !.dispatch = Append(s.dispatch, b)]
             next ==
                IF b = "concat" THEN
                    IF v.kind # "tensor" THEN raise("AttributeError")
                    ELSE [took EXCEPT !.xc = <<"cat", e>>]
                ELSE IF b = "film" THEN
                    IF v.kind # "tensor" THEN raise("AttributeError")
                    ELSE [took EXCEPT !.y = Append(s.y, e)]
                ELSE IF b = "crossattn" THEN
                    IF v.kind # "dict" /\ v.len # 2 THEN raise("AssertionError")
                    ELSE LET pair == IF v.kind = "dict"
                                        THEN NestedLoop(e, v.keys, 1, s.pair)
                                        ELSE <<e, 0>>
                         IN  IF pair = Unbound THEN raise("UnboundLocalError")
                             ELSE [took EXCEPT
                                     !.pair = pair,
                                     !.contexts = Append(s.contexts,
                                                    <<"context">> \o pair),
                                     !.masks = Append(s.masks,
                                                    <<"attn_mask">> \o pair)]
                ELSE IF b = "noncond" THEN took
                ELSE raise("NotImplementedError")
         IN  ForwardLoop(d, e + 1, next)

ForwardOff ==
    /\ fw_cond_dict = <<>>
    /\ fw_pc = "off"
    /\ fw_error = "none"
    /\ fw_error_at = 0
    /\ fw_dispatch = <<>>
    /\ context_list = <<>>
    /\ attn_mask_list = <<>>
    /\ fw_denoiser_calls = <<>>

\* forward(x, t, cond_dict) has been called.
ForwardInit ==
    /\ \E ks \in KeySeqs : fw_cond_dict \in Bundles(ks)
    /\ fw_pc = "called"
    /\ fw_error = "none"
    /\ fw_error_at = 0
    /\ fw_dispatch = <<>>
    /\ context_list = <<>>
    /\ attn_mask_list = <<>>
    /\ fw_denoiser_calls = <<>>

\* DiffusionWrapper.forward(x, t, cond_dict)
DiffusionWrapperForward ==
    /\ fw_pc = "called"
    /\ \E s \in {ForwardLoop(fw_cond_dict, 1,
                    [xc |-> <<"x">>, y |-> <<>>, pair |-> Unbound,
                     contexts |-> <<>>, masks |-> <<>>, dispatch |-> <<>>,
                     error |-> "none", at |-> 0])} :
           /\ fw_error' = s.error
           /\ fw_error_at' = s.at
           /\ fw_dispatch' = s.dispatch
           /\ context_list' = s.contexts
           /\ attn_mask_list' = s.masks
           /\ IF s.error = "none"
                 THEN /\ fw_pc' = "returned"
                      /\ fw_denoiser_calls' =
                            <<[xc |-> s.xc, context_list |-> s.contexts,
                               y |-> s.y,
                               context_attn_mask_list |-> s.masks]>>
                 ELSE /\ fw_pc' = "raised"
                      /\ fw_denoiser_calls' = <<>>
    /\ UNCHANGED fw_cond_dict
    /\ UNCHANGED notForwardVars

(***************************************************************************)
(* p_sample: the reverse step on a batch whose samples each have a         *)
(* timestep, a mean, a standard deviation and a noise draw of their own.   *)
(* The values are finite, as the clipped log-variance buffer and           *)
(* torch.randn make them.                                                  *)
(***************************************************************************)
MaxPsBatch == 2     \* samples of the batch

MeanValues == {0 - 1, 1}
SigmaValues == {1, 2}
NoiseValues == {0 - 1, 0, 1}

\* nonzero_mask = (1 - (t == 0).float()).reshape(b, 1, ...): one entry for
\* each sample of the batch.
NonzeroMask_WholeBatch(t) ==
    [a \in 1..Len(t) |-> IF \E c \in 1..Len(t) : t[c] = 0 THEN 0 ELSE 1]

NonzeroMask(t) == [a \in 1..Len(t) |-> 1 - (IF t[a] = 0 THEN 1 ELSE 0)]

PstepOff ==
    /\ ps_t = <<>>
    /\ ps_mean = <<>>
    /\ ps_sigma = <<>>
    /\ ps_noise = <<>>
    /\ ps_pc = "off"
    /\ ps_out = <<>>

\* p_sample(x, t) has computed the mean and the log-variance and has drawn
\* the noise.
PstepInit ==
    /\ \E b \in 1..MaxPsBatch :
          /\ ps_t \in [1..b -> 0..(MaxT - 1)]
          /\ ps_mean \in [1..b -> MeanValues]
          /\ ps_sigma \in [1..b -> SigmaValues]
          /\ ps_noise \in [1..b -> NoiseValues]
    /\ ps_pc = "called"
    /\ ps_out = <<>>

\* return model_mean + nonzero_mask * (0.5 * model_log_variance).exp() * noise
PSampleReturn ==
    /\ ps_pc = "called"
    /\ ps_out' = [a \in 1..Len(ps_t) |->
                    ps_mean[a] + NonzeroMask(ps_t)[a] * ps_sigma[a] * ps_noise[a]]
    /\ ps_pc' = "returned"
    /\ UNCHANGED <<ps_t, ps_mean, ps_sigma, ps_noise>>
    /\ UNCHANGED notPstepVars

(***************************************************************************)
(* DDPM.init_from_ckpt: the removal of the ignored entries and the load.   *)
(* A name is the sequence of its characters.                               *)
(***************************************************************************)
MaxIgnore == 2      \* entries of the ignore_keys list

CkptNames ==
    {<<"m", "o", "d", "e", "l", ".", "w">>,
     <<"m", "o", "d", "e", "l", "_", "e", "m", "a", ".", "w">>,
     <<"c", "o", "n", "d", ".", "w">>}

IgnorePrefixes ==
    {<<"m", "o", "d", "e", "l">>,
     <<"m", "o", "d", "e", "l", "_", "e", "m", "a">>,
     <<"c", "o", "n", "d">>,
     <<"w">>}

\* The parameter names of the module the checkpoint is loaded into
TargetNames(model_only) ==
    IF model_only
       THEN {<<"m", "o", "d", "e", "l", ".", "w">>}
       ELSE {<<"m", "o", "d", "e", "l", ".", "w">>, <<"c", "o", "n", "d", ".", "w">>}

\* k.startswith(ik)
StartsWith(k, ik) == Len(ik) <= Len(k) /\ SubSeq(k, 1, Len(ik)) = ik

\* The inner loop `for ik in ignore_keys` on the name k, from the a-th prefix
\* on: `del sd[k]` raises KeyError when k is no longer in sd.
RECURSIVE DeleteIgnored(_, _, _, _)
DeleteIgnored(sd, k, iks, a) ==
    IF a > Len(iks) THEN [sd |-> sd, error |-> "none"]
    ELSE IF StartsWith(k, iks[a])
       THEN IF k \in sd
               THEN DeleteIgnored(sd \ {k}, k, iks, a + 1)
               ELSE [sd |-> sd, error |-> "KeyError"]
    ELSE DeleteIgnored(sd, k, iks, a + 1)

\* The outer loop `for k in list(sd.keys())` over the names still to visit
RECURSIVE RemoveIgnored(_, _, _)
RemoveIgnored(sd, todo, iks) ==
    IF todo = {} THEN [sd |-> sd, error |-> "none"]
    ELSE LET k == CHOOSE n \in todo : TRUE
             r == DeleteIgnored(sd, k, iks, 1)
         IN  IF r.error # "none" THEN r
             ELSE RemoveIgnored(r.sd, todo \ {k}, iks)

CkptOff ==
    /\ ck_names = {}
    /\ ck_nested = FALSE
    /\ ignore_keys = <<>>
    /\ only_model = FALSE
    /\ ck_pc = "off"
    /\ ck_loaded = {}
    /\ ck_missing = {}
    /\ ck_unexpected = {}
    /\ ck_error = "none"

\* init_from_ckpt(path, ignore_keys, only_model) has been called.
CkptInit ==
    /\ ck_names \in SUBSET CkptNames
    /\ ck_nested \in BOOLEAN
    /\ ignore_keys \in UNION {[1..n -> IgnorePrefixes] : n \in 0..MaxIgnore}
    /\ only_model \in BOOLEAN
    /\ ck_pc = "called"
    /\ ck_loaded = {}
    /\ ck_missing = {}
    /\ ck_unexpected = {}
    /\ ck_error = "none"

\* init_from_ckpt: sd is the checkpoint or its "state_dict" entry, with the
\* same names either way.
InitFromCkpt ==
    /\ ck_pc = "called"
    /\ \E r \in {RemoveIgnored(ck_names, ck_names, ignore_keys)} :
          IF r.error # "none"
             THEN /\ ck_pc' = "raised"
                  /\ ck_error' = r.error
                  /\ UNCHANGED <<ck_loaded, ck_missing, ck_unexpected>>
             ELSE /\ ck_pc' = "returned"
                  /\ ck_loaded' = r.sd
                  /\ ck_missing' = TargetNames(only_model) \ r.sd
                  /\ ck_unexpected' = r.sd \ TargetNames(only_model)
                  /\ UNCHANGED ck_error
    /\ UNCHANGED <<ck_names, ck_nested, ignore_keys, only_model>>
    /\ UNCHANGED notCkptVars

(***************************************************************************)
(* LatentDiffusion.shared_step and the start of generate_sample: the       *)
(* bundle get_input builds, filter_useful_cond_dict, reorder_cond_dict and *)
(* the losses carried in the bundle.                                       *)
(*                                                                         *)
(* A bundle is the sequence of its keys in insertion order; the loss an    *)
(* entry holds is a power of two of its own, so that a sum of losses tells *)
(* which entries went into it.                                             *)
(***************************************************************************)
MaxDictKeys == 2    \* keys of the dict an encoder returns

StepRegistered == {"crossattn_flan_t5", "film_clap_cond1"}

StepKeys ==
    StepRegistered
        \cup {"noncond_loss_clap2audiomae", "noncond_clap"}

\* The loss held under a key of the bundle
LossOf(key) ==
    IF key = "noncond_loss_clap2audiomae" THEN 1
    ELSE IF key = "noncond_clap" THEN 4
    ELSE IF key = "crossattn_flan_t5" THEN 8
    ELSE 16

\* The loss p_losses returns, and the keys of its loss_dict
DiffusionLoss == 32
DiffusionLossDict == {"loss_simple", "loss_vlb", "loss"}

InSeq(k, s) == \E a \in 1..Len(s) : s[a] = k

\* cond_dict[key] = c on a dict with the keys d: a new key goes to the end.
SetItem(d, key) == IF InSeq(key, d) THEN d ELSE Append(d, key)

\* cond_dict.update(c) with the keys ks of c, from the a-th on
RECURSIVE UpdateKeys(_, _, _)
UpdateKeys(d, ks, a) ==
    IF a > Len(ks) THEN d ELSE UpdateKeys(SetItem(d, ks[a]), ks, a + 1)

\* The loop of get_input over cond_stage_model_metadata from the a-th encoder
\* on: the keys of cond_dict.
RECURSIVE GetInputKeys(_, _, _, _)
GetInputKeys(registry, outs, a, d) ==
    IF a > Len(registry) THEN d
    ELSE IF InSeq(registry[a], d) THEN GetInputKeys(registry, outs, a + 1, d)
    ELSE GetInputKeys(registry, outs, a + 1,
            IF outs[a].kind = "tensor" THEN SetItem(d, registry[a])
            ELSE UpdateKeys(d, outs[a].keys, 1))

\* filter_useful_cond_dict: the keys of new_cond_dict, and whether the
\* assertion on the registered keys fails.
FilterUsefulCondDict(c, registry) ==
    LET kept == SelectSeq(c, LAMBDA k : InSeq(k, registry))
    IN  [keys |-> kept,
         error |-> IF \A a \in 1..Len(registry) : InSeq(registry[a], kept)
                      THEN "none" ELSE "AssertionError"]

\* reorder_cond_dict: the keys of self.conditioning_key, in their order
ReorderCondDict_Same(c, conditioning_key) == c

ReorderCondDict(c, conditioning_key) == conditioning_key

\* The test of extract_possible_loss_in_cond_dict on a key
IsLossKey_NoncondOnly(key) ==
    Contains(KeyText(key), <<"n", "o", "n", "c", "o", "n", "d">>)

IsLossKey(key) ==
    /\ Contains(KeyText(key), <<"l", "o", "s", "s">>)
    /\ Contains(KeyText(key), <<"n", "o", "n", "c", "o", "n", "d">>)

\* extract_possible_loss_in_cond_dict: the keys of `losses`, in order
ExtractPossibleLoss(c) == SelectSeq(c, IsLossKey)

\* The loop of shared_step over the extracted losses, from the a-th on
RECURSIVE AddLosses(_, _, _)
AddLosses(loss, ks, a) ==
    IF a > Len(ks) THEN loss
    ELSE AddLosses(IF loss = NoneArg THEN LossOf(ks[a]) ELSE loss + LossOf(ks[a]),
                   ks, a + 1)

StepOff ==
    /\ st_path = "none"
    /\ st_registry = <<>>
    /\ st_enc_out = <<>>
    /\ optimize_ddpm_parameter = FALSE
    /\ training = FALSE
    /\ st_pc = "off"
    /\ st_c = <<>>
    /\ st_wrapper_calls = <<>>
    /\ st_loss = NoneArg
    /\ st_loss_dict = {}
    /\ st_error = "none"

EncoderOutputs ==
    {[kind |-> "tensor", keys |-> <<>>]} \cup
    {[kind |-> "dict", keys |-> ks] :
        ks \in {s \in UNION {[1..n -> StepKeys] : n \in 0..MaxDictKeys} :
                    Distinct(s)}}

\* shared_step(batch) or generate_sample(batchs) has been called on a model
\* whose encoders are registered under st_registry.
StepInit ==
    /\ st_path \in {"shared_step", "generate_sample"}
    /\ st_registry \in {r \in UNION {[1..n -> StepRegistered] : n \in 0..MaxCond} :
                           Distinct(r)}
    /\ st_enc_out \in [1..Len(st_registry) -> EncoderOutputs]
    /\ optimize_ddpm_parameter \in BOOLEAN
    /\ training \in BOOLEAN
    /\ st_pc = "called"
    /\ st_c = <<>>
    /\ st_wrapper_calls = <<>>
    /\ st_loss = NoneArg
    /\ st_loss_dict = {}
    /\ st_error = "none"

stepArgVars == <<st_path, st_registry, st_enc_out, optimize_ddpm_parameter,
                 training>>

\* x, c = self.get_input(...)
StepGetInput ==
    /\ st_pc = "called"
    /\ st_c' = GetInputKeys(st_registry, st_enc_out, 1, <<>>)
    /\ st_pc' = "got"
    /\ UNCHANGED <<stepArgVars, st_wrapper_calls, st_loss, st_loss_dict, st_error>>
    /\ UNCHANGED notStepVars

\* shared_step: loss, loss_dict = self(x, self.filter_useful_cond_dict(c)) when
\* optimize_ddpm_parameter; forward -> p_losses -> apply_model reorders the
\* bundle and calls the wrapper.
StepDiffusionLoss ==
    /\ st_pc = "got"
    /\ st_path = "shared_step"
    /\ IF optimize_ddpm_parameter
          THEN \E f \in {FilterUsefulCondDict(st_c, st_registry)} :
                  IF f.error # "none"
                     THEN /\ st_pc' = "raised"
                          /\ st_error' = f.error
                          /\ UNCHANGED <<st_wrapper_calls, st_loss, st_loss_dict>>
                     ELSE /\ st_pc' = "stepped"
                          /\ st_wrapper_calls' =
                                Append(st_wrapper_calls,
                                       ReorderCondDict(f.keys, st_registry))
                          /\ st_loss' = DiffusionLoss
                          /\ st_loss_dict' = DiffusionLossDict
                          /\ UNCHANGED st_error
          ELSE /\ st_pc' = "stepped"
               /\ st_loss' = NoneArg
               /\ st_loss_dict' = {}
               /\ UNCHANGED <<st_wrapper_calls, st_error>>
    /\ UNCHANGED <<stepArgVars, st_c>>
    /\ UNCHANGED notStepVars

\* shared_step: the losses of the bundle are added, and `assert loss is not
\* None` in training mode.
StepReturn ==
    /\ st_pc = "stepped"
    /\ \E extracted \in {ExtractPossibleLoss(st_c)} :
       \E loss \in {AddLosses(st_loss, extracted, 1)} :
          /\ st_loss_dict' = st_loss_dict \cup {extracted[a] : a \in 1..Len(extracted)}
          /\ st_loss' = loss
          /\ IF training /\ loss = NoneArg
                THEN st_pc' = "raised" /\ st_error' = "AssertionError"
                ELSE st_pc' = "returned" /\ UNCHANGED st_error
    /\ UNCHANGED <<stepArgVars, st_c, st_wrapper_calls>>
    /\ UNCHANGED notStepVars

\* generate_sample: c = self.filter_useful_cond_dict(c), and the sampler
\* sample_log runs calls apply_model with c, which reorders the bundle and
\* calls the wrapper.
StepGenerateSample ==
    /\ st_pc = "got"
    /\ st_path = "generate_sample"
    /\ \E f \in {FilterUsefulCondDict(st_c, st_registry)} :
          IF f.error # "none"
             THEN /\ st_pc' = "raised"
                  /\ st_error' = f.error
                  /\ UNCHANGED st_wrapper_calls
             ELSE /\ st_pc' = "returned"
                  /\ st_wrapper_calls' =
                        Append(st_wrapper_calls,
                               ReorderCondDict(f.keys, st_registry))
                  /\ UNCHANGED st_error
    /\ UNCHANGED <<stepArgVars, st_c, st_loss, st_loss_dict>>
    /\ UNCHANGED notStepVars

(***************************************************************************)
(* LatentDiffusion.register_schedule and make_cond_schedule. The points of *)
(* torch.linspace are held as fractions <<numerator, denominator>>.        *)
(***************************************************************************)
MaxCondT == 10      \* num_timesteps is drawn from 1..MaxCondT

\* torch.linspace(0, T - 1, n)[k], for k in 0..n-1 and n > 1
Linspace_Exclusive(T, n, k) == <<k * (T - 1), n>>

Linspace(T, n, k) == <<k * (T - 1), n - 1>>

\* torch.round of a fraction that is not negative: to the nearest integer, a
\* half going to the even neighbour.
Round(x) ==
    LET f == x[1] \div x[2]
        r == x[1] % x[2]
    IN  IF 2 * r < x[2] THEN f
        ELSE IF 2 * r > x[2] THEN f + 1
        ELSE IF f % 2 = 0 THEN f ELSE f + 1

CondOff ==
    /\ cs_num_timesteps = 1
    /\ num_timesteps_cond = 1
    /\ cs_pc = "off"
    /\ shorten_cond_schedule = FALSE
    /\ cond_ids = <<>>

\* The constructor has asserted num_timesteps_cond <= timesteps and calls
\* register_schedule.
CondInit ==
    /\ cs_num_timesteps \in 1..MaxCondT
    /\ num_timesteps_cond \in 1..cs_num_timesteps
    /\ cs_pc = "called"
    /\ shorten_cond_schedule = FALSE
    /\ cond_ids = <<>>

\* self.shorten_cond_schedule = self.num_timesteps_cond > 1
CondRegisterSchedule ==
    /\ cs_pc = "called"
    /\ shorten_cond_schedule' = (num_timesteps_cond > 1)
    /\ cs_pc' = IF num_timesteps_cond > 1 THEN "shorten" ELSE "registered"
    /\ UNCHANGED <<cs_num_timesteps, num_timesteps_cond, cond_ids>>
    /\ UNCHANGED notCondVars

\* self.cond_ids = torch.full((num_timesteps,), num_timesteps - 1)
MakeCondScheduleFull ==
    /\ cs_pc = "shorten"
    /\ cond_ids' = [t \in 1..cs_num_timesteps |-> cs_num_timesteps - 1]
    /\ cs_pc' = "filled"
    /\ UNCHANGED <<cs_num_timesteps, num_timesteps_cond, shorten_cond_schedule>>
    /\ UNCHANGED notCondVars

\* self.cond_ids[:num_timesteps_cond] = torch.round(cond_steps).long()
MakeCondScheduleAssign ==
    /\ cs_pc = "filled"
    /\ cond_ids' = [t \in 1..cs_num_timesteps |->
                      IF t <= num_timesteps_cond
                         THEN Round(Linspace(cs_num_timesteps,
                                             num_timesteps_cond, t - 1))
                         ELSE cond_ids[t]]
    /\ cs_pc' = "registered"
    /\ UNCHANGED <<cs_num_timesteps, num_timesteps_cond, shorten_cond_schedule>>
    /\ UNCHANGED notCondVars

(***************************************************************************)
(* training_step's random_clap_condition and the validation epoch hooks.   *)
(* The model has one CLAP descriptor and one AudioMAE descriptor. The      *)
(* trainer calls the hooks in order: training steps, then an epoch start   *)
(* and the matching epoch end, with no training step in between.           *)
(***************************************************************************)
MaxValCalls == 4        \* hook and training-step calls of one run

CondStageKeys == {"text", "waveform"}
EmbedModes == {"text", "audio"}
GtMaeProbs == {0, 5}

\* What metric evaluation does inside the try block.
EvaluationOutcomes == {"metrics", "no folder", "Exception"}

ValOff ==
    /\ vl_cond_stage_key = "off"
    /\ vl_embed_mode = "off"
    /\ use_gt_mae_output = FALSE
    /\ use_gt_mae_prob = 0
    /\ cond_stage_key_orig = "missing"
    /\ embed_mode_orig = "missing"
    /\ use_gt_mae_output_orig = <<>>
    /\ use_gt_mae_prob_orig = <<>>
    /\ vl_global_rank = 0
    /\ vl_evaluator = FALSE
    /\ test_data_subset_path = FALSE
    /\ metrics_buffer = "empty"
    /\ vl_pc = "off"
    /\ vl_error = "none"
    /\ vl_before = <<>>
    /\ vl_calls = 0

\* The settings of the four fields the hooks override.
Settings == <<vl_cond_stage_key, vl_embed_mode, use_gt_mae_output, use_gt_mae_prob>>

\* instantiate_cond_stage has built the descriptors from the configuration;
\* no "_orig" entry exists yet.
ValInit ==
    /\ vl_cond_stage_key \in CondStageKeys
    /\ vl_embed_mode \in EmbedModes
    /\ use_gt_mae_output \in BOOLEAN
    /\ use_gt_mae_prob \in GtMaeProbs
    /\ cond_stage_key_orig = "missing"
    /\ embed_mode_orig = "missing"
    /\ use_gt_mae_output_orig = <<>>
    /\ use_gt_mae_prob_orig = <<>>
    /\ vl_global_rank \in {0, 1}
    /\ vl_evaluator \in BOOLEAN
    /\ test_data_subset_path \in BOOLEAN
    /\ metrics_buffer = "empty"
    /\ vl_pc = "training"
    /\ vl_error = "none"
    /\ vl_before = <<>>
    /\ vl_calls = 0

valFixed == <<vl_global_rank, vl_evaluator, test_data_subset_path>>

\* random_clap_condition, called by every training_step: stash the CLAP
\* settings and draw text or audio conditioning.
RandomClapCondition ==
    /\ vl_pc \in {"training", "ended"}
    /\ vl_calls < MaxValCalls
    /\ vl_calls' = vl_calls + 1
    /\ cond_stage_key_orig' = vl_cond_stage_key
    /\ embed_mode_orig' = vl_embed_mode
    /\ \E text \in BOOLEAN :
          /\ vl_cond_stage_key' = IF text THEN "text" ELSE "waveform"
          /\ vl_embed_mode' = IF text THEN "text" ELSE "audio"
    /\ vl_pc' = "training"
    /\ UNCHANGED <<use_gt_mae_output, use_gt_mae_prob, use_gt_mae_output_orig,
                   use_gt_mae_prob_orig, metrics_buffer, vl_error, vl_before>>
    /\ UNCHANGED valFixed
    /\ UNCHANGED notValVars

\* on_validation_epoch_start: stash the settings and switch to text
\* conditioning and predicted AudioMAE tokens.
OnValidationEpochStart ==
    /\ vl_pc \in {"training", "ended"}
    /\ vl_calls < MaxValCalls
    /\ vl_calls' = vl_calls + 1
    /\ vl_before' = Settings
    /\ cond_stage_key_orig' = vl_cond_stage_key
    /\ embed_mode_orig' = vl_embed_mode
    /\ vl_cond_stage_key' = "text"
    /\ vl_embed_mode' = "text"
    /\ use_gt_mae_output_orig' = <<use_gt_mae_output>>
    /\ use_gt_mae_prob_orig' = <<use_gt_mae_prob>>
    /\ use_gt_mae_output' = FALSE
    /\ use_gt_mae_prob' = 0
    /\ vl_pc' = "validating"
    /\ UNCHANGED <<metrics_buffer, vl_error>>
    /\ UNCHANGED valFixed
    /\ UNCHANGED notValVars

\* The restoring loop of on_validation_epoch_end.
RestoreSettings ==
    /\ vl_cond_stage_key' = cond_stage_key_orig
    /\ vl_embed_mode' = embed_mode_orig
    /\ use_gt_mae_output' = use_gt_mae_output_orig[1]
    /\ use_gt_mae_prob' = use_gt_mae_prob_orig[1]

\* on_validation_epoch_end: on rank 0 with an evaluator, assert that the
\* target folder is set and evaluate inside try / except Exception; then
\* restore the settings. The assertion stands before the try block.
OnValidationEpochEnd ==
    /\ vl_pc = "validating"
    /\ vl_calls' = vl_calls + 1
    /\ UNCHANGED <<cond_stage_key_orig, embed_mode_orig, use_gt_mae_output_orig,
                   use_gt_mae_prob_orig, vl_before>>
    /\ UNCHANGED valFixed
    /\ UNCHANGED notValVars
    /\ IF vl_global_rank = 0 /\ vl_evaluator
          THEN IF ~test_data_subset_path
                  THEN /\ vl_pc' = "raised"
                       /\ vl_error' = "AssertionError"
                       /\ UNCHANGED <<vl_cond_stage_key, vl_embed_mode,
                                      use_gt_mae_output, use_gt_mae_prob,
                                      metrics_buffer>>
                  ELSE /\ \E outcome \in EvaluationOutcomes :
                             metrics_buffer' = IF outcome = "metrics"
                                                  THEN "filled"
                                                  ELSE metrics_buffer
                       /\ RestoreSettings
                       /\ vl_pc' = "ended"
                       /\ UNCHANGED vl_error
          ELSE /\ RestoreSettings
               /\ vl_pc' = "ended"
               /\ UNCHANGED <<metrics_buffer, vl_error>>

(***************************************************************************)
(* AudioPeekabooSeparator: the constructor and forward. Tensors and their  *)
(* arithmetic are those of masking_torch_image above.                      *)
(***************************************************************************)
MaxSepCalls == 2        \* forward calls on one separator

\* The spectrograms given to the constructor, two elements each.
SepForegrounds ==
    {<<0 - 4 * FloatOne, 2 * FloatOne>>, <<0, FloatOne + 1>>,
     <<2 * FloatOne, 0 - FloatOne>>, <<FloatOne, FloatOne>>}

\* The alphas of a forward call: every two-element alpha over 0, 0.5 and 1,
\* one of another shape and one that leaves [0, 1].
SepAlphas ==
    [1..2 -> {0, FloatOne \div 2, FloatOne}] \cup {<<FloatOne>>, <<FloatOne + 1, 0>>}

SepOff ==
    /\ sp_foreground = <<>>
    /\ sp_log_mel_spec = <<>>
    /\ sp_original = <<>>
    /\ sp_previous = <<>>
    /\ sp_alpha = <<>>
    /\ sp_pc = "off"
    /\ sp_calls = 0

\* __init__: self.data = data; self.foreground = data['log_mel_spec'].to(device)
SepInit ==
    /\ sp_original \in SepForegrounds
    /\ sp_log_mel_spec = sp_original
    /\ sp_foreground = sp_original
    /\ sp_previous = <<>>
    /\ sp_alpha = <<>>
    /\ sp_pc = "constructed"
    /\ sp_calls = 0

\* The tensor forward hands to masking_torch_image: self.foreground.
MaskedTensor_FromBatch(foreground, log_mel_spec) == log_mel_spec

MaskedTensor(foreground, log_mel_spec) == foreground

\* forward(alpha): masking_torch_image(self.foreground, alpha), whose
\* assertions may fail, then self.data['log_mel_spec'] = masked_log_mel_spec.
\* The assertion after the assignment cannot fail once masking_torch_image
\* has accepted alpha.
SeparatorForward ==
    /\ sp_pc \in {"constructed", "returned", "raised"}
    /\ sp_calls < MaxSepCalls
    /\ sp_calls' = sp_calls + 1
    /\ \E alpha \in SepAlphas :
          LET x == MaskedTensor(sp_foreground, sp_log_mel_spec)
          IN  /\ sp_alpha' = alpha
              /\ sp_previous' = sp_log_mel_spec
              /\ IF \/ Len(x) # Len(alpha)
                    \/ ~(TensorMin(alpha) >= 0 /\ TensorMax(alpha) <= FloatOne)
                    THEN /\ sp_pc' = "raised"
                         /\ UNCHANGED sp_log_mel_spec
                    ELSE /\ sp_pc' = "returned"
                         /\ sp_log_mel_spec' = Blend(x, alpha)
    /\ UNCHANGED <<sp_foreground, sp_original>>
    /\ UNCHANGED notSepVars

(***************************************************************************)
(* The specifications.                                                     *)
(***************************************************************************)
InitEma ==
    EmaInit /\ SampleOff /\ CfgOff /\ WrapperOff /\ ScheduleOff /\ PkbooOff
    /\ MaskOff /\ ScaleOff /\ GenOff /\ SlogOff /\ GlcOff /\ ForwardOff
    /\ PstepOff /\ CkptOff /\ StepOff /\ CondOff /\ ValOff /\ SepOff
NextEma ==
    \/ TrainBatch
    \/ EmaScopeEnter
    \/ EmaBodyBatch
    \/ EmaScopeExitNormal
    \/ EmaScopeExitException
SpecEma == InitEma /\ [][NextEma]_vars

InitSample ==
    SampleInit /\ EmaOff /\ CfgOff /\ WrapperOff /\ ScheduleOff /\ PkbooOff
    /\ MaskOff /\ ScaleOff /\ GenOff /\ SlogOff /\ GlcOff /\ ForwardOff
    /\ PstepOff /\ CkptOff /\ StepOff /\ CondOff /\ ValOff /\ SepOff
NextSample ==
    \/ Construct
    \/ PLosses
    \/ CallDDPMPSampleLoop
    \/ CallPSampleLoop
    \/ CallProgressiveDenoising
    \/ DDPMPSampleLoopStep
    \/ PSampleLoopStep
    \/ ProgressiveDenoisingStep
    \/ CallerResumes
SpecSample == InitSample /\ [][NextSample]_vars

InitCfg ==
    CfgInit /\ EmaOff /\ SampleOff /\ WrapperOff /\ ScheduleOff /\ PkbooOff
    /\ MaskOff /\ ScaleOff /\ GenOff /\ SlogOff /\ GlcOff /\ ForwardOff
    /\ PstepOff /\ CkptOff /\ StepOff /\ CondOff /\ ValOff /\ SepOff
NextCfg ==
    \/ GetInput
SpecCfg == InitCfg /\ [][NextCfg]_vars

InitWrapper ==
    WrapperInit /\ EmaOff /\ SampleOff /\ CfgOff /\ ScheduleOff /\ PkbooOff
    /\ MaskOff /\ ScaleOff /\ GenOff /\ SlogOff /\ GlcOff /\ ForwardOff
    /\ PstepOff /\ CkptOff /\ StepOff /\ CondOff /\ ValOff /\ SepOff
NextWrapper ==
    \/ DiffusionWrapperInit
SpecWrapper == InitWrapper /\ [][NextWrapper]_vars

InitSchedule ==
    ScheduleInit /\ EmaOff /\ SampleOff /\ CfgOff /\ WrapperOff /\ PkbooOff
    /\ MaskOff /\ ScaleOff /\ GenOff /\ SlogOff /\ GlcOff /\ ForwardOff
    /\ PstepOff /\ CkptOff /\ StepOff /\ CondOff /\ ValOff /\ SepOff
NextSchedule ==
    \/ RegisterSchedule
SpecSchedule == InitSchedule /\ [][NextSchedule]_vars

InitPkboo ==
    PkbooInit /\ EmaOff /\ SampleOff /\ CfgOff /\ WrapperOff /\ ScheduleOff
    /\ MaskOff /\ ScaleOff /\ GenOff /\ SlogOff /\ GlcOff /\ ForwardOff
    /\ PstepOff /\ CkptOff /\ StepOff /\ CondOff /\ ValOff /\ SepOff
NextPkboo ==
    \/ PkbooFor
    \/ PkbooAlpha
    \/ PkbooReset
    \/ PkbooForward
    \/ PkbooTrainingStep
    \/ PkbooOptimise
    \/ PkbooLoss1
    \/ PkbooTrigger
    \/ PkbooLoss2
    \/ PkbooPreview
    \/ PkbooFinalSave
    \/ PkbooPrint
    \/ PkbooInterrupt
    \/ PkbooHandler
    \/ PkbooFinally
SpecPkboo == InitPkboo /\ [][NextPkboo]_vars

InitMask ==
    MaskInit /\ EmaOff /\ SampleOff /\ CfgOff /\ WrapperOff /\ ScheduleOff
    /\ PkbooOff /\ ScaleOff /\ GenOff /\ SlogOff /\ GlcOff /\ ForwardOff
    /\ PstepOff /\ CkptOff /\ StepOff /\ CondOff /\ ValOff /\ SepOff
NextMask ==
    \/ MaskingTorchImage
SpecMask == InitMask /\ [][NextMask]_vars

InitScale ==
    ScaleInit /\ EmaOff /\ SampleOff /\ CfgOff /\ WrapperOff /\ ScheduleOff
    /\ PkbooOff /\ MaskOff /\ GenOff /\ SlogOff /\ GlcOff /\ ForwardOff
    /\ PstepOff /\ CkptOff /\ StepOff /\ CondOff /\ ValOff /\ SepOff
NextScale ==
    \/ OnTrainBatchStart
    \/ TrainerBatchEnd
SpecScale == InitScale /\ [][NextScale]_vars

InitGen ==
    GenInit /\ EmaOff /\ SampleOff /\ CfgOff /\ WrapperOff /\ ScheduleOff
    /\ PkbooOff /\ MaskOff /\ ScaleOff /\ SlogOff /\ GlcOff /\ ForwardOff
    /\ PstepOff /\ CkptOff /\ StepOff /\ CondOff /\ ValOff /\ SepOff
NextGen ==
    \/ GenerateCandidates
    \/ SelectBest
    \/ SaveBatch
    \/ GenerateSampleReturn
SpecGen == InitGen /\ [][NextGen]_vars

InitSlog ==
    SlogInit /\ EmaOff /\ SampleOff /\ CfgOff /\ WrapperOff /\ ScheduleOff
    /\ PkbooOff /\ MaskOff /\ ScaleOff /\ GenOff /\ GlcOff /\ ForwardOff
    /\ PstepOff /\ CkptOff /\ StepOff /\ CondOff /\ ValOff /\ SepOff
NextSlog ==
    \/ SampleLog
    \/ DDIMSamplerSample
    \/ PLMSSamplerSample
    \/ SampleLogSample
    \/ SampleLogReturn
SpecSlog == InitSlog /\ [][NextSlog]_vars

InitGlc ==
    GlcInit /\ EmaOff /\ SampleOff /\ CfgOff /\ WrapperOff /\ ScheduleOff
    /\ PkbooOff /\ MaskOff /\ ScaleOff /\ GenOff /\ SlogOff /\ ForwardOff
    /\ PstepOff /\ CkptOff /\ StepOff /\ CondOff /\ ValOff /\ SepOff
NextGlc ==
    \/ GetLearnedConditioningCall
SpecGlc == InitGlc /\ [][NextGlc]_vars

InitForward ==
    ForwardInit /\ EmaOff /\ SampleOff /\ CfgOff /\ WrapperOff /\ ScheduleOff
    /\ PkbooOff /\ MaskOff /\ ScaleOff /\ GenOff /\ SlogOff /\ GlcOff
    /\ PstepOff /\ CkptOff /\ StepOff /\ CondOff /\ ValOff /\ SepOff
NextForward ==
    \/ DiffusionWrapperForward
SpecForward == InitForward /\ [][NextForward]_vars

InitPstep ==
    PstepInit /\ EmaOff /\ SampleOff /\ CfgOff /\ WrapperOff /\ ScheduleOff
    /\ PkbooOff /\ MaskOff /\ ScaleOff /\ GenOff /\ SlogOff /\ GlcOff
    /\ ForwardOff /\ CkptOff /\ StepOff /\ CondOff /\ ValOff /\ SepOff
NextPstep ==
    \/ PSampleReturn
SpecPstep == InitPstep /\ [][NextPstep]_vars

InitCkpt ==
    CkptInit /\ EmaOff /\ SampleOff /\ CfgOff /\ WrapperOff /\ ScheduleOff
    /\ PkbooOff /\ MaskOff /\ ScaleOff /\ GenOff /\ SlogOff /\ GlcOff
    /\ ForwardOff /\ PstepOff /\ StepOff /\ CondOff /\ ValOff /\ SepOff
NextCkpt ==
    \/ InitFromCkpt
SpecCkpt == InitCkpt /\ [][NextCkpt]_vars

InitStep ==
    StepInit /\ EmaOff /\ SampleOff /\ CfgOff /\ WrapperOff /\ ScheduleOff
    /\ PkbooOff /\ MaskOff /\ ScaleOff /\ GenOff /\ SlogOff /\ GlcOff
    /\ ForwardOff /\ PstepOff /\ CkptOff /\ CondOff /\ ValOff /\ SepOff
NextStep ==
    \/ StepGetInput
    \/ StepDiffusionLoss
    \/ StepReturn
    \/ StepGenerateSample
SpecStep == InitStep /\ [][NextStep]_vars

InitCond ==
    CondInit /\ EmaOff /\ SampleOff /\ CfgOff /\ WrapperOff /\ ScheduleOff
    /\ PkbooOff /\ MaskOff /\ ScaleOff /\ GenOff /\ SlogOff /\ GlcOff
    /\ ForwardOff /\ PstepOff /\ CkptOff /\ StepOff /\ ValOff /\ SepOff
NextCond ==
    \/ CondRegisterSchedule
    \/ MakeCondScheduleFull
    \/ MakeCondScheduleAssign
SpecCond == InitCond /\ [][NextCond]_vars

InitVal ==
    ValInit /\ EmaOff /\ SampleOff /\ CfgOff /\ WrapperOff /\ ScheduleOff
    /\ PkbooOff /\ MaskOff /\ ScaleOff /\ GenOff /\ SlogOff /\ GlcOff
    /\ ForwardOff /\ PstepOff /\ CkptOff /\ StepOff /\ CondOff /\ SepOff
NextVal ==
    \/ RandomClapCondition
    \/ OnValidationEpochStart
    \/ OnValidationEpochEnd
SpecVal == InitVal /\ [][NextVal]_vars

InitSep ==
    SepInit /\ EmaOff /\ SampleOff /\ CfgOff /\ WrapperOff /\ ScheduleOff
    /\ PkbooOff /\ MaskOff /\ ScaleOff /\ GenOff /\ SlogOff /\ GlcOff
    /\ ForwardOff /\ PstepOff /\ CkptOff /\ StepOff /\ CondOff /\ ValOff
NextSep ==
    \/ SeparatorForward
SpecSep == InitSep /\ [][NextSep]_vars

(***************************************************************************)
(* The EMA scope: C1.                                                      *)
(***************************************************************************)
\* C1: after ema_scope exits, normally or by an exception, the live weights are
\* those of just before the scope was entered; with use_ema off the live weights
\* are those of before the entry all through the scope as well.
C1_EmaScopeRestores ==
    /\ ema_pc = "exited" => model_params = ema_entry_params
    /\ (~use_ema /\ ema_pc = "body") => model_params = ema_entry_params

\* The scope was left by an exception after a batch was sampled with EMA weights
\* that differ from the training weights.
C1_Witness ==
    /\ ema_pc = "exited"
    /\ ema_exit_kind = "exception"
    /\ use_ema
    /\ ema_batches > 0
    /\ shadow_params # ema_entry_params

(***************************************************************************)
(* The sampling loops: C2, C3, C8.                                         *)
(***************************************************************************)
\* The number of steps a loop is asked for: its timesteps argument, by default the
\* schedule's length.
AskedT == IF arg_timesteps = NoneArg THEN num_timesteps ELSE arg_timesteps

InSampleLoop == loop_kind # "none" /\ sm_pc \in {"loop", "returned", "raised"}

\* The k-th p_sample call of the loop is for timestep n - k, and gets the latent
\* the iteration before it ended with (the initial noise in the first).
CallsDescendFrom(n) ==
    \A k \in 1..Len(p_calls) :
        /\ p_calls[k].t = n - k
        /\ p_calls[k].x = IF k = 1 THEN InitialLatent ELSE step_out[k - 1]

\* callback and img_callback, where given, were called once for each completed
\* iteration, in the iterations' order, with the iteration's timestep and latent.
CallbacksFollow(n) ==
    /\ arg_callback => callback_log = [k \in 1..Len(step_out) |-> n - k]
    /\ ~arg_callback => callback_log = <<>>
    /\ arg_img_callback =>
          img_callback_log = [k \in 1..Len(step_out) |->
                                 [img |-> step_out[k], i |-> n - k]]
    /\ ~arg_img_callback => img_callback_log = <<>>

\* C2: a sampling loop called without start_T calls p_sample for T-1, T-2, ..., 0
\* in this order, once each, each call on the latent the previous iteration
\* produced, and when it returns it has made all T calls; the callbacks follow
\* the iterations.
C2_LoopVisitsEveryTimestepInOrder ==
    (InSampleLoop /\ arg_start_T = NoneArg) =>
        /\ CallsDescendFrom(AskedT)
        /\ CallbacksFollow(AskedT)
        /\ Len(step_out) <= Len(p_calls)
        /\ Len(p_calls) <= AskedT
        /\ sm_pc = "returned" =>
              /\ Len(p_calls) = AskedT
              /\ Len(step_out) = AskedT
              /\ img = IF AskedT = 0 THEN InitialLatent ELSE step_out[AskedT]

\* A loop over the whole schedule has returned, with a mask and both callbacks.
C2_Witness ==
    /\ sm_pc = "returned"
    /\ loop_kind = "p_sample_loop"
    /\ arg_start_T = NoneArg
    /\ arg_timesteps = NoneArg
    /\ arg_callback /\ arg_img_callback /\ arg_mask
    /\ Len(p_calls) = MaxT

\* C3 (as the spec states it): a loop truncated with start_T visits the timesteps
\* T-1 down to start_T.
C3_AsStated ==
    (InSampleLoop /\ sm_pc = "returned" /\ arg_start_T # NoneArg) =>
        /\ Len(p_calls) = (IF arg_start_T < AskedT THEN AskedT - arg_start_T ELSE 0)
        /\ \A k \in 1..Len(p_calls) : p_calls[k].t = AskedT - k

\* C3 (amended): a loop truncated with start_T visits the timesteps
\* min(T, start_T) - 1 down to 0, the ones below start_T, and leaves out the
\* timesteps at and above start_T.
C3_TruncatedLoopStartsBelowStartT ==
    (InSampleLoop /\ arg_start_T # NoneArg) =>
        LET M == IF arg_start_T < AskedT THEN arg_start_T ELSE AskedT
        IN  /\ CallsDescendFrom(M)
            /\ Len(p_calls) <= M
            /\ sm_pc = "returned" =>
                  {p_calls[k].t : k \in 1..Len(p_calls)} =
                      {t \in 0..(AskedT - 1) : t < arg_start_T}

\* A truncated loop has returned after leaving out a timestep and visiting one.
C3_Witness ==
    /\ sm_pc = "returned"
    /\ loop_kind = "progressive_denoising"
    /\ arg_start_T > 0
    /\ arg_start_T < num_timesteps
    /\ Len(p_calls) = arg_start_T

\* C8: with a parameterization the constructor accepted, no p_losses call and no
\* reverse step of a loop ends in a failure over the parameterization.
C8_NoParameterizationFailureAfterConstruction ==
    (sm_pc # "rejected" /\ ParameterizationAccepted(parameterization)) =>
        sm_error \notin {"NotImplementedError", "UnboundLocalError"}

(***************************************************************************)
(* get_input and the CFG dropout: C4, C5, C6.                              *)
(***************************************************************************)
CallModes == {enc_calls[a].mode : a \in 1..Len(enc_calls)}
CalledKeys == {enc_calls[a].key : a \in 1..Len(enc_calls)}
BundleMakers == {cond_dict[k] : k \in BundleKeys} \ {"absent"}

C5_AsStated ==
    (gi_pc # "idle" /\ gi_prob = RandSteps /\ Len(cond_keys) > 0) =>
        /\ CallModes \subseteq {"uncond"}
        /\ BundleMakers \subseteq {"uncond"}

\* C5 (amended): the same of every call made once a get_input call has returned
\* (conditional_dry_run_finished is set); the calls before that encode the real
\* inputs.
C5_ProbabilityOneUnconditionalAfterDryRun ==
    /\ (gi_pc # "idle" /\ gi_prob = RandSteps /\ Len(cond_keys) > 0
            /\ gi_dry_before) =>
          /\ unconditional_cfg
          /\ CallModes \subseteq {"uncond"}
          /\ BundleMakers \subseteq {"uncond"}
          /\ gi_pc = "returned" => Len(enc_calls) > 0
    /\ (gi_pc # "idle" /\ ~gi_dry_before) =>
          /\ ~unconditional_cfg
          /\ CallModes \subseteq {"real"}

\* A call with probability 1 after the dry run, with the highest draw, in which
\* two encoders gave their unconditional embeddings.
C5_Witness ==
    /\ gi_pc = "returned"
    /\ gi_prob = RandSteps
    /\ gi_rand = RandSteps - 1
    /\ gi_dry_before
    /\ Len(enc_calls) = 2
    /\ CallModes = {"uncond"}

\* C6: the dropout decision of a get_input call is one for the whole bundle: all
\* encoder calls of a call are of one kind, the kind of the call's single
\* decision, and so are all entries of the bundle; and the decision is that of
\* the call's own draw against the call's own probability (after the dry run),
\* whatever the calls before it decided.
C6_OneDecisionPerCall ==
    gi_pc # "idle" =>
        /\ CallModes \subseteq {IF unconditional_cfg THEN "uncond" ELSE "real"}
        /\ BundleMakers \subseteq {IF unconditional_cfg THEN "uncond" ELSE "real"}
        /\ unconditional_cfg <=>
              (Len(cond_keys) > 0 /\ gi_dry_before /\ gi_rand < gi_prob)

\* A call in which two encoders were both called for the unconditional embedding,
\* at a probability strictly between 0 and 1.
C6_Witness ==
    /\ gi_pc = "returned"
    /\ unconditional_cfg
    /\ gi_prob > 0
    /\ gi_prob < RandSteps
    /\ Len(enc_calls) = 2
    /\ Cardinality(BundleMakers) = 1

(***************************************************************************)
(* DiffusionWrapper.__init__: C7.                                          *)
(***************************************************************************)
\* C7: the constructor of the Denoiser Wrapper ends with the error for an invalid
\* conditioning key (InvalidConditioningKey, in the code's terms Python's
\* ValueError) when a key of the list contains none of concat, crossattn,
\* hybrid, film, noncond, and constructs when every key contains one.
C7_IllegalKeyRaisesInvalidConditioningKey ==
    wr_pc # "new" =>
        IF \E a \in 1..Len(wr_conditioning_key) :
               ~KeyIsLegal(wr_conditioning_key[a])
           THEN wr_pc = "raised"
                /\ wr_error \in {"InvalidConditioningKey", "ValueError"}
           ELSE wr_pc = "constructed"

(***************************************************************************)
(* DDPM.register_schedule: C9.                                             *)
(***************************************************************************)
\* The beta sequences C9 calls invalid: of length zero, or with a value that is
\* at least 1 or at most 0.
BetasInvalid ==
    \/ Len(sch_betas) = 0
    \/ \E t \in 1..Len(sch_betas) :
           \/ sch_betas[t][1] >= sch_betas[t][2]
           \/ sch_betas[t][1] <= 0

\* C9: register_schedule fails with ConfigError and registers no schedule buffer
\* when the beta sequence has length zero or holds a value >= 1 or <= 0, and
\* succeeds for every other sequence.
C9_InvalidBetasFailWithConfigError ==
    sch_pc \in {"registered", "raised"} =>
        IF BetasInvalid
           THEN sch_pc = "raised" /\ sch_error = "ConfigError" /\ sch_buffers = <<>>
           ELSE sch_pc = "registered"

(***************************************************************************)
(* run_pkboo interrupted: C10.                                             *)
(***************************************************************************)
\* The iterations of the loop that had completed when the interrupt arrived:
\* at the loop header the body of iteration iter_idx has finished, inside the
\* body it has not.
CompletedIterations ==
    IF iter_idx = NoneArg THEN 0
    ELSE IF pk_interrupt_at = "for" THEN iter_idx + 1
    ELSE iter_idx

\* C10: when a KeyboardInterrupt arrives at any statement of the optimisation
\* loop, run_pkboo catches it, saves the loss history of every completed
\* iteration with the partial result (spectrogram image and waveform), writes
\* the metadata, and exits normally.
C10_InterruptSavesPartialResults ==
    (pk_pc = "exited" /\ pk_interrupt_at # "none") =>
        /\ pk_exit = "returned"
        /\ pk_saved_mel
        /\ pk_saved_wav
        /\ pk_saved_loss
        /\ pk_loss_plot = <<Prefix(losses1, CompletedIterations),
                            Prefix(losses2, CompletedIterations)>>
        /\ pk_saved_metadata

(***************************************************************************)
(* masking_torch_image: C11.                                               *)
(***************************************************************************)
AlphaEverywhere(v) == \A a \in 1..Len(mk_alpha) : mk_alpha[a] = v

AlphaInRange == \A a \in 1..Len(mk_alpha) : mk_alpha[a] >= 0 /\ mk_alpha[a] <= FloatOne

\* C11: masking_torch_image returns min(foreground) in every element for alpha 0
\* everywhere, exactly foreground for alpha 1 everywhere, elements between
\* min(foreground) and the foreground element for any alpha in [0, 1], and
\* fails with an assertion when the shapes differ or alpha leaves [0, 1].
C11_MaskBlendEndpointsExact ==
    mk_pc \in {"returned", "raised"} =>
        IF Len(mk_foreground) # Len(mk_alpha) \/ ~AlphaInRange
           THEN mk_pc = "raised" /\ mk_error = "AssertionError"
           ELSE /\ mk_pc = "returned"
                /\ AlphaEverywhere(0) =>
                       \A a \in 1..Len(mk_blended) :
                           mk_blended[a] = TensorMin(mk_foreground)
                /\ AlphaEverywhere(FloatOne) => mk_blended = mk_foreground
                /\ \A a \in 1..Len(mk_blended) :
                       /\ TensorMin(mk_foreground) <= mk_blended[a]
                       /\ mk_blended[a] <= mk_foreground[a]

(***************************************************************************)
(* The latent scale factor: C12.                                           *)
(***************************************************************************)
\* C12: the scale factor is set at most once over a training run: only by
\* on_train_batch_start of the very first batch (epoch 0, global step 0, batch
\* index 0), to 1/std(z), and only when scale_by_std is set, the factor is still
\* 1 and the model was not restored from a checkpoint; every later hook call
\* leaves it unchanged, and with scale_by_std disabled it keeps its configured
\* constant.
C12_ScaleFactorCalibratedOnce ==
    /\ [][(scale_factor' # scale_factor \/ sf_log' # sf_log) =>
              /\ tb_pc = "start"
              /\ current_epoch = 0 /\ global_step = 0 /\ tb_batch_idx = 0
              /\ scale_by_std /\ scale_factor = One /\ ~restarted_from_ckpt
              /\ sf_log = <<>>
              /\ scale_factor' = Div(One, tb_z_std')
              /\ sf_log' = <<scale_factor'>>]_vars
    /\ [](~scale_by_std => scale_factor = arg_scale_factor)

C12_Witness ==
    /\ tb_pc = "done"
    /\ Len(sf_log) = 1
    /\ scale_factor = Two
    /\ num_training_batches = MaxTrainBatches
    /\ accumulate_grad_batches = MaxAccumulate

(***************************************************************************)
(* generate_sample: C13, C14.                                              *)
(***************************************************************************)
\* The candidates generated for input j of a batch: rows j, j+B, ..., j+(N-1)B.
CandidatesOf(j) == {j + k * gs_batch_size : k \in 0..(n_gen - 1)}

\* save_waveform has returned for the batch the loop was at.
BatchSaved == gs_pc \in {"loop", "returned"} /\ gs_batches_saved > 0

\* C13: with n_gen = N > 1 and a batch of B inputs, exactly B waveforms are kept
\* and saved; the j-th is the candidate with the highest similarity among the N
\* candidates generated for input j and is saved under the j-th filename.
C13_BestOfNKeepsArgMaxPerInput ==
    (BatchSaved /\ n_gen > 1 /\ ~gs_clap_failed) =>
        /\ Len(gs_saved) = gs_batch_size
        /\ \A a \in 1..Len(gs_saved) :
               /\ gs_saved[a].name = a - 1
               /\ gs_saved[a].candidate \in CandidatesOf(a - 1)
               /\ \A k \in CandidatesOf(a - 1) :
                      gs_similarity[k + 1] <= gs_similarity[gs_saved[a].candidate + 1]
        \* the conditioning of row k is that of the input whose candidate it is
        /\ \A k \in 0..(gs_batch_size * n_gen - 1) :
               k \in CandidatesOf(
                   RepeatRows([a \in 1..gs_batch_size |-> a - 1], n_gen)[k + 1])

C13_Witness ==
    /\ gs_pc = "returned"
    /\ n_gen = 2
    /\ gs_batch_size = 2
    /\ gs_batches_saved = 2
    /\ ~gs_clap_failed
    /\ gs_similarity = <<0, 1, 1, 0>>
    /\ gs_saved = <<[name |-> 0, candidate |-> 2], [name |-> 1, candidate |-> 1]>>

\* C14: a failure of the similarity scoring during best-of-N selection does not
\* abort generate_sample: the waveforms of the batch are still saved, every
\* remaining batch is processed and no exception leaves generate_sample.
C14_ScoringFailureIsNotFatal ==
    gs_clap_failures > 0 =>
        /\ gs_pc # "raised"
        /\ gs_error = "none"
        /\ gs_pc = "returned" => gs_batches_saved = gs_num_batches

(***************************************************************************)
(* The separator's optimisation loop and the frozen model: C15.            *)
(***************************************************************************)
\* C15: in the optimisation loop an optimizer step changes only the mask
\* parameters: every parameter of the latent diffusion model (denoiser, first
\* stage, conditioning encoders) keeps the value it had before the loop, none
\* has requires_grad set and none is in the optimizer's parameter list.
C15_OnlyMaskParametersChange ==
    /\ [][\A g \in LdmParams : pk_params'[g].value = pk_params[g].value]_vars
    /\ [](\A g \in LdmParams :
              /\ ~pk_params[g].requires_grad
              /\ g \notin pk_optim
              /\ pk_params[g].grad = 0)

C15_Witness ==
    /\ pk_pc = "exited"
    /\ pk_exit = "returned"
    /\ NUM_ITER = MaxIter
    /\ iter_idx = NUM_ITER - 1
    /\ pk_params["alpha"].value # 0
    /\ \A g \in LdmParams : pk_params[g].value = 0

(***************************************************************************)
(* The recorded intermediates of p_sample_loop: C16.                       *)
(***************************************************************************)
\* The log interval a p_sample_loop call uses: DDPM.p_sample_loop has
\* self.log_every_t, LatentDiffusion.p_sample_loop its argument when given.
LogInterval ==
    IF loop_kind = "p_sample_loop" /\ arg_log_every_t # 0
       THEN arg_log_every_t ELSE self_log_every_t

InPSampleLoop ==
    InSampleLoop /\ loop_kind \in {"DDPM.p_sample_loop", "p_sample_loop"}

\* The latents of the steps made so far that the loop is to record.
RECURSIVE RecordedSteps(_)
RecordedSteps(k) ==
    IF k = 0 THEN <<>>
    ELSE IF p_calls[k].t % LogInterval = 0 \/ k = 1
       THEN Append(RecordedSteps(k - 1), step_out[k])
       ELSE RecordedSteps(k - 1)

\* C16: p_sample_loop records the latent of every step whose timestep is a
\* multiple of log_every_t and the latent of the final step (t = 0); the last
\* recorded intermediate equals the returned sample, with a mask as well.
C16_IntermediatesEndWithSample ==
    InPSampleLoop =>
        /\ \A k \in 1..Len(step_out) :
               (p_calls[k].t % LogInterval = 0 \/ p_calls[k].t = 0) =>
                   \E a \in 1..Len(intermediates) : intermediates[a] = step_out[k]
        /\ intermediates = <<InitialLatent>> \o RecordedSteps(Len(step_out))
        /\ sm_pc = "returned" =>
               /\ intermediates[Len(intermediates)] = img
               /\ arg_mask /\ Len(step_out) > 0 => img.kind = "blend"

\* A masked loop over three timesteps with log_every_t = 2 has returned: the
\* step for t = 1 is not recorded, the steps for t = 2 and t = 0 are.
C16_Witness ==
    /\ sm_pc = "returned"
    /\ loop_kind = "p_sample_loop"
    /\ arg_mask
    /\ arg_log_every_t = 2
    /\ self_log_every_t = 1
    /\ Len(step_out) = 3
    /\ Len(intermediates) = 3
    /\ intermediates[3] = img

(***************************************************************************)
(* The sampler sample_log selects: C17.                                    *)
(***************************************************************************)
\* The sampler the flags of sample_log stand for
FlaggedSampler ==
    IF sl_use_plms THEN "plms" ELSE IF sl_ddim THEN "ddim" ELSE "ddpm"

\* C17: sample_log selects PLMS when use_plms, DDIM when ddim and not
\* use_plms, the ancestral DDPM loop otherwise, and for each selection the
\* call completes and returns the samples of that sampler.
C17_EverySelectionCompletes ==
    /\ sl_pc \in {"selected", "sampled", "returned", "raised"} =>
           sl_sampler = FlaggedSampler
    /\ sl_pc # "raised"
    /\ sl_pc = "returned" => sl_result[1] = FlaggedSampler

(***************************************************************************)
(* get_learned_conditioning: C18.                                          *)
(***************************************************************************)
GlcDone == glc_pc \in {"returned", "raised"}

EncoderCalled(method, arg) ==
    /\ glc_pc = "returned"
    /\ glc_calls = <<[model |-> glc_key, method |-> method, arg |-> arg]>>
    /\ glc_return = glc_calls[1]

GlcRaised(e) == glc_pc = "raised" /\ glc_error = e /\ glc_calls = <<>>

\* The statement of C18 as written: with the flag set, every input that is
\* neither a tensor nor a list fails with UnsupportedInputType.
C18_AsStated ==
    (/\ GlcDone
     /\ glc_key \in glc_registry
     /\ glc_unconditional_cfg
     /\ glc_c.type \notin {"Tensor", "list"}) => GlcRaised("NotImplementedError")

\* C18: with the unconditional flag set get_learned_conditioning never runs the
\* encoder on the raw input; a dict input stands for the value under its first
\* key (an empty dict raises StopIteration); the encoder's
\* get_unconditional_condition is called with the row count of a tensor or the
\* length of a list, and any other type fails with NotImplementedError; with
\* the flag clear the encoder's output on the raw input is returned; an
\* unregistered name fails with KeyError before any encoder is called.
C18_UnconditionalUsesBatchSizeOfInput ==
    GlcDone =>
        /\ glc_key \notin glc_registry => GlcRaised("KeyError")
        /\ glc_key \in glc_registry /\ ~glc_unconditional_cfg =>
               EncoderCalled("forward", glc_c)
        /\ glc_key \in glc_registry /\ glc_unconditional_cfg =>
               /\ \A a \in 1..Len(glc_calls) : glc_calls[a].method # "forward"
               /\ glc_c.type \in {"Tensor", "list"} =>
                      EncoderCalled("get_unconditional_condition", glc_c.size)
               /\ glc_c.type = "str" => GlcRaised("NotImplementedError")
               /\ glc_c.type = "dict" /\ glc_c.values = <<>> =>
                      GlcRaised("StopIteration")
               /\ glc_c.type = "dict" /\ glc_c.values # <<>> =>
                      LET first == glc_c.values[1]
                      IN  IF first.type = "str"
                             THEN GlcRaised("NotImplementedError")
                             ELSE EncoderCalled("get_unconditional_condition",
                                                first.size)

\* A dict whose first value is a tensor of one row and whose second is a list
\* of two was given with the flag set, and the call has returned.
C18_Witness ==
    /\ glc_pc = "returned"
    /\ glc_unconditional_cfg
    /\ glc_c = [type |-> "dict",
                values |-> <<[type |-> "Tensor", size |-> 1],
                             [type |-> "list", size |-> 2]>>]
    /\ glc_calls[1].arg = 1

(***************************************************************************)
(* DiffusionWrapper.forward: C19, C20.                                     *)
(***************************************************************************)
ForwardDone == fw_pc \in {"returned", "raised"}

\* A key that holds none of the substrings concat, film, crossattn, noncond
NoFusionMode(key) ==
    /\ ~Has(key, ConcatText)
    /\ ~Has(key, FilmText)
    /\ ~Has(key, CrossattnText)
    /\ ~Has(key, NoncondText)

RejectedEntries ==
    {e \in 1..Len(fw_cond_dict) : NoFusionMode(fw_cond_dict[e].key)}

\* The fusion modes whose substring a key holds
ModesIn(key) ==
    {m \in {"concat", "film", "crossattn", "noncond"} :
        \/ m = "concat" /\ Has(key, ConcatText)
        \/ m = "film" /\ Has(key, FilmText)
        \/ m = "crossattn" /\ Has(key, CrossattnText)
        \/ m = "noncond" /\ Has(key, NoncondText)}

\* C19: forward never calls the denoiser when a key of the bundle holds none of
\* the substrings concat, film, crossattn, noncond: it fails with
\* NotImplementedError at the first such key, unless an entry before that key
\* has already failed on its value; every entry handled before the failure is
\* dispatched to exactly one fusion mode, one whose substring its key holds.
C19_KeyWithoutFusionModeIsRejected ==
    ForwardDone =>
        /\ RejectedEntries # {} =>
              LET first == CHOOSE e \in RejectedEntries :
                               \A f \in RejectedEntries : e <= f
              IN  /\ fw_pc = "raised"
                  /\ fw_denoiser_calls = <<>>
                  /\ \/ fw_error = "NotImplementedError" /\ fw_error_at = first
                     \/ /\ fw_error_at \in 1..(first - 1)
                        /\ fw_error \in {"AttributeError", "AssertionError",
                                         "UnboundLocalError"}
        /\ fw_error = "NotImplementedError" => fw_error_at \in RejectedEntries
        /\ \A e \in 1..Len(fw_dispatch) :
              fw_dispatch[e] \in ModesIn(fw_cond_dict[e].key)
        /\ Len(fw_dispatch) = IF fw_pc = "raised" THEN fw_error_at - 1
                              ELSE Len(fw_cond_dict)

\* A bundle whose second key, hybrid, holds no fusion mode has been rejected
\* after its first entry was dispatched to crossattn.
C19_Witness ==
    /\ fw_pc = "raised"
    /\ fw_error = "NotImplementedError"
    /\ fw_error_at = 2
    /\ fw_cond_dict[2].key = "hybrid"
    /\ fw_dispatch = <<"crossattn">>
    /\ fw_denoiser_calls = <<>>

\* The cross-attention pairs entry e supplies, in iteration order
PairsOfEntry(e) ==
    LET v == fw_cond_dict[e].value
        RECURSIVE nested(_)
        nested(j) ==
            IF j = 0 THEN <<>>
            ELSE IF Has(v.keys[j], CrossattnText)
               THEN Append(nested(j - 1), <<e, j>>)
               ELSE nested(j - 1)
    IN  IF Branch(fw_cond_dict[e].key) # "crossattn" THEN <<>>
        ELSE IF v.kind = "dict" THEN nested(Len(v.keys))
        ELSE <<<<e, 0>>>>

RECURSIVE SuppliedPairs(_)
SuppliedPairs(e) ==
    IF e = 0 THEN <<>> ELSE SuppliedPairs(e - 1) \o PairsOfEntry(e)

\* C20: the cross-attention inputs are collected into two parallel lists of
\* equal length with one (context, mask) entry per cross-attention pair
\* supplied, one for a key with a single pair and one for each pair of a
\* nested mapping, in iteration order; the denoiser receives these lists.
C20_OneEntryPerCrossAttentionPair ==
    fw_pc = "returned" =>
        LET pairs == SuppliedPairs(Len(fw_cond_dict))
        IN  /\ Len(context_list) = Len(attn_mask_list)
            /\ context_list = [a \in 1..Len(pairs) |-> <<"context">> \o pairs[a]]
            /\ attn_mask_list =
                   [a \in 1..Len(pairs) |-> <<"attn_mask">> \o pairs[a]]
            /\ fw_denoiser_calls[1].context_list = context_list
            /\ fw_denoiser_calls[1].context_attn_mask_list = attn_mask_list

(***************************************************************************)
(* The intermediates sample_log returns: C30.                              *)
(***************************************************************************)
\* C30: sample_log returns, as the second element of its result, the
\* intermediates produced by the sampler it ran, for every choice of sampler.
C30_ReturnsIntermediatesOfSampler ==
    sl_pc = "returned" =>
        /\ sl_intermediates = sl_sampler
        /\ sl_result[2] = sl_intermediates

(***************************************************************************)
(* The noise mask of p_sample: C21.                                        *)
(***************************************************************************)
\* C21: p_sample returns mean + mask * exp(0.5 * log_variance) * noise with
\* the mask decided per sample: a sample whose timestep is 0 gets the model
\* mean exactly, a sample whose timestep is above 0 gets the noise term in
\* full, whatever the timesteps of the other samples of the batch.
C21_NoiseMaskedPerSample ==
    ps_pc = "returned" =>
        /\ Len(ps_out) = Len(ps_t)
        /\ \A a \in 1..Len(ps_t) :
              /\ ps_t[a] = 0 => ps_out[a] = ps_mean[a]
              /\ ps_t[a] > 0 => ps_out[a] = ps_mean[a] + ps_sigma[a] * ps_noise[a]

\* A batch of two samples, the first at timestep 0 and the second above it,
\* both with a noise draw that is not zero, has been stepped.
C21_Witness ==
    /\ ps_pc = "returned"
    /\ Len(ps_t) = 2
    /\ ps_t[1] = 0 /\ ps_t[2] > 0
    /\ ps_noise[1] # 0 /\ ps_noise[2] # 0
    /\ ps_out[1] = ps_mean[1]
    /\ ps_out[2] # ps_mean[2]

(***************************************************************************)
(* init_from_ckpt: C22.                                                    *)
(***************************************************************************)
Ignored(k) == \E a \in 1..Len(ignore_keys) : StartsWith(k, ignore_keys[a])

\* C22: for every checkpoint and every ignore-list of name prefixes,
\* init_from_ckpt removes exactly the entries whose name starts with at least
\* one ignore prefix, keeps every other entry, and loads the remainder without
\* raising, missing and unexpected names being reported only.
C22_IgnoredEntriesRemovedThenLoaded ==
    ck_pc \in {"returned", "raised"} =>
        /\ ck_pc = "returned"
        /\ ck_loaded = {k \in ck_names : ~Ignored(k)}

(***************************************************************************)
(* The bundle that reaches the Denoiser Wrapper: C23.                      *)
(***************************************************************************)
SeqSet(s) == {s[a] : a \in 1..Len(s)}

\* C23: the bundle that reaches the Denoiser Wrapper from shared_step and
\* generate_sample has the registered condition names as its keys, in
\* registration order, unregistered keys being dropped; when a registered name
\* is absent from the bundle get_input built, the call fails with an assertion
\* and the wrapper is not called.
C23_WrapperGetsRegisteredKeys ==
    /\ \A a \in 1..Len(st_wrapper_calls) : st_wrapper_calls[a] = st_registry
    /\ (/\ st_pc \in {"stepped", "returned", "raised"}
        /\ st_path = "generate_sample" \/ optimize_ddpm_parameter) =>
           IF SeqSet(st_registry) \subseteq SeqSet(st_c)
              THEN Len(st_wrapper_calls) = 1
              ELSE /\ st_pc = "raised"
                   /\ st_error = "AssertionError"
                   /\ st_wrapper_calls = <<>>

\* A shared_step whose first encoder returned a dict holding an unregistered
\* loss and the second registered name before its own: the bundle's order is
\* not the registration order, and the wrapper has been called.
C23_Witness ==
    /\ st_path = "shared_step"
    /\ Len(st_registry) = 2
    /\ Len(st_c) = 3
    /\ st_c[2] = st_registry[2]
    /\ st_c[3] = st_registry[1]
    /\ Len(st_wrapper_calls) = 1

(***************************************************************************)
(* The total loss of shared_step: C24.                                     *)
(***************************************************************************)
\* The sum of the losses of a set of keys
RECURSIVE SumLosses(_)
SumLosses(S) ==
    IF S = {} THEN 0
    ELSE LET k == CHOOSE x \in S : TRUE IN LossOf(k) + SumLosses(S \ {k})

\* The entries of the bundle whose key holds both "loss" and "noncond"
LossEntries ==
    {k \in SeqSet(st_c) :
        /\ Contains(KeyText(k), <<"l", "o", "s", "s">>)
        /\ Contains(KeyText(k), <<"n", "o", "n", "c", "o", "n", "d">>)}

\* C24: the total loss of shared_step is the diffusion loss, present only
\* when optimize_ddpm_parameter is set, plus the sum of exactly the bundle
\* entries whose key holds both "loss" and "noncond"; every such entry is in
\* the loss breakdown returned; in training mode the step fails rather than
\* return no loss.
C24_TotalLossIsDiffusionPlusBundleLosses ==
    /\ (st_path = "shared_step" /\ st_pc = "returned") =>
          /\ IF ~optimize_ddpm_parameter /\ LossEntries = {}
                THEN st_loss = NoneArg /\ ~training
                ELSE st_loss = (IF optimize_ddpm_parameter THEN DiffusionLoss ELSE 0)
                                  + SumLosses(LossEntries)
          /\ LossEntries \subseteq st_loss_dict
          /\ st_loss_dict = LossEntries \cup
                (IF optimize_ddpm_parameter THEN DiffusionLossDict ELSE {})
    /\ (/\ st_path = "shared_step"
        /\ st_pc \in {"returned", "raised"}
        /\ training
        /\ ~optimize_ddpm_parameter
        /\ LossEntries = {}) => st_pc = "raised" /\ st_error = "AssertionError"

\* A shared_step with the diffusion loss, a loss of the bundle and a "noncond"
\* entry that holds no loss has returned.
C24_Witness ==
    /\ st_path = "shared_step"
    /\ st_pc = "returned"
    /\ optimize_ddpm_parameter
    /\ LossEntries = {"noncond_loss_clap2audiomae"}
    /\ InSeq("noncond_clap", st_c)
    /\ st_loss = DiffusionLoss + LossOf("noncond_loss_clap2audiomae")

(***************************************************************************)
(* The boundary LVLB weight: C25.                                          *)
(***************************************************************************)
\* C25: after register_schedule on any valid beta sequence of length T > 0,
\* for each parameterization, lvlb_weights has length T and lvlb_weights[0]
\* equals lvlb_weights[1]; registration completes for every such T.
C25_LvlbBoundaryForEveryLength ==
    (/\ sch_pc \in {"registered", "raised"}
     /\ Len(sch_betas) > 0
     /\ ~BetasInvalid) =>
        /\ sch_pc = "registered"
        /\ Len(sch_lvlb_isnan) = Len(sch_betas)
        /\ Len(sch_betas) >= MinT => sch_lvlb_isnan[1] = sch_lvlb_isnan[2]

(***************************************************************************)
(* The shortened conditioning schedule: C26.                               *)
(***************************************************************************)
\* C26: when the conditioning schedule is shortened (1 < num_timesteps_cond
\* <= T), cond_ids is a map over all T timesteps that is monotonic
\* non-decreasing, takes values in [0, T-1], starts at cond_ids[0] = 0 and
\* equals T-1 for every t >= num_timesteps_cond - 1.
C26_CondIdsMonotoneOntoLastStep ==
    (cs_pc = "registered" /\ num_timesteps_cond > 1) =>
        /\ shorten_cond_schedule
        /\ Len(cond_ids) = cs_num_timesteps
        /\ \A t \in 1..(cs_num_timesteps - 1) : cond_ids[t] <= cond_ids[t + 1]
        /\ \A t \in 1..cs_num_timesteps : cond_ids[t] \in 0..(cs_num_timesteps - 1)
        /\ cond_ids[1] = 0
        /\ \A t \in num_timesteps_cond..cs_num_timesteps :
              cond_ids[t] = cs_num_timesteps - 1

\* Six timesteps with three conditioning steps: the middle point of the
\* grid, 2.5, is rounded to 2.
C26_Witness ==
    /\ cs_pc = "registered"
    /\ cs_num_timesteps = 6
    /\ num_timesteps_cond = 3
    /\ cond_ids = <<0, 2, 5, 5, 5, 5>>

(***************************************************************************)
(* run_pkboo without an interrupt: C27.                                    *)
(***************************************************************************)
\* C27: when the optimisation loop runs all NUM_ITER iterations without
\* interruption (BATCH_SIZE = 1, NUM_ITER >= 1, whatever the losses),
\* run_pkboo saves the final results and the metadata and returns without
\* raising an exception.
C27_UninterruptedRunReturns ==
    (/\ pk_pc = "exited"
     /\ pk_interrupt_at = "none"
     /\ BATCH_SIZE = 1
     /\ NUM_ITER >= 1) =>
        /\ pk_saved_mel
        /\ pk_saved_wav
        /\ pk_saved_loss
        /\ pk_saved_metadata
        /\ pk_exit = "returned"

(***************************************************************************)
(* The evaluation-time override of the conditioning settings: C28.         *)
(***************************************************************************)
\* on_validation_epoch_end has been left, by return or by an exception.
ValidationEpochLeft == vl_pc \in {"ended", "raised"}

\* When on_validation_epoch_end returns, the four settings are the ones held
\* just before the matching on_validation_epoch_start.
RestoredOnReturn == vl_pc = "ended" => Settings = vl_before

\* C28: after on_validation_epoch_end, on every path through it, the
\* cond_stage_key, the CLAP embed_mode and the AudioMAE use_gt_mae_output and
\* use_gt_mae_prob equal the values they held immediately before the matching
\* on_validation_epoch_start, for any interleaving of training steps and
\* validation epochs.
C28_OverrideAlwaysUndone == ValidationEpochLeft => Settings = vl_before

(***************************************************************************)
(* Masking in the separator is not cumulative: C29.                        *)
(***************************************************************************)
\* C29: self.foreground is the spectrogram given to the constructor and
\* never changes, and after any number of forward calls, the latest of them
\* having returned, data['log_mel_spec'] is
\* masking_torch_image(original foreground, alpha of the latest call).
C29_MaskingIsNotCumulative ==
    /\ sp_pc # "off" => sp_foreground = sp_original
    /\ sp_pc = "returned" => sp_log_mel_spec = Blend(sp_original, sp_alpha)

\* A second forward whose result differs from masking what the first call
\* left in data['log_mel_spec'].
C29_Witness ==
    /\ sp_pc = "returned"
    /\ sp_calls = 2
    /\ sp_previous # sp_original
    /\ sp_log_mel_spec # Blend(sp_previous, sp_alpha)
    /\ sp_log_mel_spec = Blend(sp_original, sp_alpha)

====
